---- MODULE Spec2Model ----
(***************************************************************************)
(* A model of contextify's processing pipeline: the SQLite store           *)
(* (storage/sqlite.ts), the worker pool (services/base-processor.ts) and   *)
(* the topic extraction stage (services/topic-generation.ts).              *)
(*                                                                         *)
(* Specifications: StoreSpec and TopicsSpec call the Store's operations in *)
(* any order; Spec is the program (main, two workers, restarts) and        *)
(* LifecycleSpec adds adapters that save stored ids again; PoolSpec is one *)
(* pool whose start() and stop() are called in any order, and FairPoolSpec *)
(* adds that every loop that can step does; IngestSpec is the ingestion    *)
(* service and its timer; QuerySpec and MetadataSpec read the Store.       *)
(*                                                                         *)
(* Tables are sets of rows.  Text columns that the code only copies are    *)
(* TLA+ strings; text the code transforms (trim) or orders (publish_date)  *)
(* is a sequence of characters, so that the transformation is computed.    *)
(* The topics column generated_at (a wall-clock reading) is left out; no   *)
(* operation modelled here reads it.                                       *)
(***************************************************************************)
EXTENDS Integers, Sequences, FiniteSets, TLC

VARIABLES
  raw_content,   \* table raw_content: a set of rows, at most one per id
  topics,        \* table topics: a set of rows, at most one per id
  phase,         \* the process: "down", "initialized" (initialize() returned), "running"
  resets,        \* resetInFlightRawContent executions of the current run
  configWorkers, \* config.processing.topics.workers
  isRunning,     \* BaseProcessorService.isRunning
  shouldStop,    \* BaseProcessorService.shouldStop
  workers,       \* per runWorker loop: where it is, and its task
  toldToStop,    \* the loops that were running when stop() was called
  claimedInRun,  \* the ids handed to a loop since the process started
  txOpen,        \* the Store's connection is inside a transaction
  channel_metadata, \* table channel_metadata: a set of rows
  ingest,        \* DataIngestionService: its timer and its fetch cycles
  last           \* the call made by the last step, its arguments and outcome: a
                 \* Store call (for claim calls made back to back: the pending
                 \* rows they started from and what each returned), a start()
                 \* or stop() of the pool or, in a worker, a processContent
                 \* call or a claimContent call that threw, with what the error
                 \* hook did

storeVars == <<raw_content, topics, txOpen>>
poolVars == <<isRunning, shouldStop, workers, toldToStop, claimedInRun>>
procVars == <<phase, resets, configWorkers>>
sideVars == <<channel_metadata, ingest>>
vars == <<raw_content, topics, phase, resets, configWorkers, isRunning, shouldStop, workers,
          toldToStop, claimedInRun, txOpen, channel_metadata, ingest, last>>

(***************************************************************************)
(* Bounds of the model.                                                    *)
(***************************************************************************)
MaxTopicId == 3        \* replaceTopics is not called once it would pass this row id
MaxBurst == 3          \* claim calls issued back to back
MaxStarts == 2         \* start() calls on one DataIngestionService
MaxDays == 2           \* days asked of the date-range query
MaxLoops == 3          \* runWorker loops one pool spawns over its start() calls

\* Configured worker counts; the pool runs max(1, n) workers.
ConfigWorkerCounts == {0, 2}

WorkerIds == 1..2

Ids == {"v1", "v2", "v3"}

\* What an adapter can hand to insertRawContent: two versions of v1 and of v2,
\* one of v3.
\* The publish instants 9, 10 and 11 allow three distinct dates, equal dates,
\* and dates whose decimal renderings differ in length.
ItemInputs ==
  { [id |-> "v1", source |-> "youtube", account |-> "@a", title |-> "t1", content |-> "c1", publishDate |-> 10],
    [id |-> "v1", source |-> "telegram", account |-> "@b", title |-> "t2", content |-> "c2", publishDate |-> 9],
    [id |-> "v2", source |-> "telegram", account |-> "@b", title |-> "t2", content |-> "c2", publishDate |-> 9],
    [id |-> "v2", source |-> "youtube", account |-> "@b", title |-> "t1", content |-> "c1", publishDate |-> 11],
    [id |-> "v3", source |-> "youtube", account |-> "@a", title |-> "t3", content |-> "c1", publishDate |-> 11] }

Statuses == {"pending", "processing", "done", "error"}

\* One day (24 * 60 * 60 * 1000 ms) in the model's unit of time.
DayLength == 2

\* new Date('2024-01-01'), the start date every adapter is built with, as an
\* instant of the model: earlier than every publish date.
StartDate == 5

(***************************************************************************)
(* Text.                                                                   *)
(***************************************************************************)
\* Date.prototype.toISOString for the instants of the model: a fixed-width,
\* zero-padded decimal rendering (the real one pads every field of a year
\* 0000..9999 the same way).
ToISOString(d) == <<d \div 10, d % 10>>

\* new Date(text) on a text written by ToISOString.
ParseDate(s) == s[1] * 10 + s[2]

\* SQLite's BINARY collation on TEXT: a < b.
TextLess(a, b) ==
  \E k \in 1..Len(b) :
    /\ \A j \in 1..(k - 1) : j <= Len(a) /\ a[j] = b[j]
    /\ \/ k > Len(a)
       \/ a[k] < b[k]

(***************************************************************************)
(* Store: raw_content.                                                     *)
(***************************************************************************)
HasRow(rc, id) == \E r \in rc : r.id = id

RowOf(rc, id) == CHOOSE r \in rc : r.id = id

\* Faulty variant: INSERT OR REPLACE: the conflicting row is rewritten with the column default.
InsertOrReplaceRawContent(rc, item) ==
  {r \in rc : r.id # item.id}
    \cup { [id |-> item.id, source |-> item.source, account |-> item.account,
             title |-> item.title, content |-> item.content,
             publish_date |-> <<item.publishDate \div 10, item.publishDate % 10>>,
             topics_status |-> "pending"] }

\* INSERT ... ON CONFLICT(id) DO UPDATE SET source, account, title, content, publish_date.
InsertRawContent(rc, item) ==
  LET iso == ToISOString(item.publishDate) IN
  IF HasRow(rc, item.id)
  THEN { IF r.id = item.id
         THEN [r EXCEPT !.source = item.source, !.account = item.account,
                        !.title = item.title, !.content = item.content,
                        !.publish_date = iso]
         ELSE r : r \in rc }
  ELSE rc \cup { [id |-> item.id, source |-> item.source, account |-> item.account,
                  title |-> item.title, content |-> item.content,
                  publish_date |-> iso, topics_status |-> "pending"] }

\* Faulty variant: the SELECT has no WHERE clause.
GetLastFetchDateAnyPair(rc, source, account) ==
  LET dates == {r.publish_date : r \in rc} IN
  IF dates = {} THEN <<>>
  ELSE <<ParseDate(CHOOSE d \in dates : \A o \in dates : ~TextLess(d, o))>>

\* getLastFetchDate: SELECT MAX(publish_date) ... WHERE source = ? AND account = ?
\* MAX over TEXT is the greatest text under the BINARY collation and NULL over
\* no row; the method gives null (here <<>>) or new Date(text) (here <<instant>>).
GetLastFetchDate(rc, source, account) ==
  LET dates == {r.publish_date : r \in {x \in rc : x.source = source /\ x.account = account}} IN
  IF dates = {} THEN <<>>
  ELSE <<ParseDate(CHOOSE d \in dates : \A o \in dates : ~TextLess(d, o))>>

\* SELECT COUNT(1) FROM raw_content WHERE id = ?
IsFetched(rc, id) == HasRow(rc, id)

\* UPDATE raw_content SET topics_status = ? WHERE id = ?
SetStageStatus(rc, id, status) ==
  { IF r.id = id THEN [r EXCEPT !.topics_status = status] ELSE r : r \in rc }

\* Faulty variant: the UPDATE has no WHERE clause.
ResetEveryStatus(rc) == { [r EXCEPT !.topics_status = "pending"] : r \in rc }

\* Faulty variant: WHERE topics_status = 'processing'.
ResetProcessingOnly(rc) ==
  { IF r.topics_status = "processing"
    THEN [r EXCEPT !.topics_status = "pending"] ELSE r : r \in rc }

\* UPDATE raw_content SET topics_status = 'pending' WHERE topics_status IN ('processing','error')
ResetInFlightRawContent(rc) ==
  { IF r.topics_status \in {"processing", "error"}
    THEN [r EXCEPT !.topics_status = "pending"] ELSE r : r \in rc }

\* RunResult.changes of that UPDATE.
ResetChanges(rc) == Cardinality({r \in rc : r.topics_status \in {"processing", "error"}})

\* Faulty variant: ORDER BY publish_date DESC.
ClaimSelectLatest(rc) ==
  LET pending == {r \in rc : r.topics_status = "pending"} IN
  {r \in pending : \A o \in pending :
     ~(r.publish_date[1] * 10 + r.publish_date[2] < o.publish_date[1] * 10 + o.publish_date[2])}

\* Faulty variant: WHERE topics_status IN ('pending', 'processing').
ClaimSelectInFlightToo(rc) ==
  LET open == {r \in rc : r.topics_status \in {"pending", "processing"}} IN
  {r \in open : \A o \in open : ~TextLess(o.publish_date, r.publish_date)}

\* The rows SELECT ... WHERE topics_status = 'pending' ORDER BY publish_date ASC LIMIT 1
\* can return: SQL leaves the order of rows with equal publish_date open.
ClaimSelect(rc) ==
  LET pending == {r \in rc : r.topics_status = "pending"} IN
  {r \in pending : \A o \in pending : ~TextLess(o.publish_date, r.publish_date)}

\* What the SELECT can return: no row, or one of the rows of ClaimSelect.
SelectOutcomes(rc) ==
  IF ClaimSelect(rc) = {} THEN {{}} ELSE {{r} : r \in ClaimSelect(rc)}

MapRawRow(row) ==
  [id |-> row.id, source |-> row.source, account |-> row.account, title |-> row.title,
   content |-> row.content, publishDate |-> ParseDate(row.publish_date),
   topicsStatus |-> row.topics_status]

NoTask == [id |-> "null"]

ClaimFailPoints == {"none", "begin", "select", "update", "commit"}

\* Faulty variant: the UPDATE is left out: the row is returned but stays pending.
ClaimWithoutUpdate(rc, sel, failAt) ==
  IF failAt # "none" THEN [rc |-> rc, ret |-> [id |-> "null"], error |-> failAt]
  ELSE IF sel = {} THEN [rc |-> rc, ret |-> [id |-> "null"], error |-> "none"]
  ELSE LET row == CHOOSE r \in sel : TRUE IN
       [rc |-> rc,
        ret |-> [id |-> row.id, source |-> row.source, account |-> row.account,
                 title |-> row.title, content |-> row.content,
                 publishDate |-> row.publish_date[1] * 10 + row.publish_date[2],
                 topicsStatus |-> "processing"],
        error |-> "none"]

\* Faulty variant: the UPDATE has no WHERE id = ?: every pending row is marked.
ClaimUpdatingAllPending(rc, sel, failAt) ==
  IF failAt # "none" THEN [rc |-> rc, ret |-> [id |-> "null"], error |-> failAt]
  ELSE IF sel = {} THEN [rc |-> rc, ret |-> [id |-> "null"], error |-> "none"]
  ELSE LET row == CHOOSE r \in sel : TRUE IN
       [rc |-> { IF r.topics_status = "pending"
                 THEN [r EXCEPT !.topics_status = "processing"] ELSE r : r \in rc },
        ret |-> [id |-> row.id, source |-> row.source, account |-> row.account,
                 title |-> row.title, content |-> row.content,
                 publishDate |-> row.publish_date[1] * 10 + row.publish_date[2],
                 topicsStatus |-> "processing"],
        error |-> "none"]

\* claimRawContentForTopics with the SELECT returning `sel` (a set: empty or one row)
\* and the statement named by failAt throwing.  Gives the table afterwards, the
\* value returned and the error thrown ("none": returned normally).
ClaimRawContentForTopics(rc, sel, failAt) ==
  IF failAt = "begin"
  THEN \* no transaction is open, so the ROLLBACK of the catch block throws in turn
       [rc |-> rc, ret |-> NoTask, error |-> "rollback"]
  ELSE IF failAt = "select"
  THEN [rc |-> rc, ret |-> NoTask, error |-> "select"]
  ELSE IF sel = {}
  THEN IF failAt = "commit"
       THEN [rc |-> rc, ret |-> NoTask, error |-> "commit"]
       ELSE [rc |-> rc, ret |-> NoTask, error |-> "none"]
  ELSE LET row == CHOOSE r \in sel : TRUE IN
       IF failAt \in {"update", "commit"}
       THEN \* ROLLBACK undoes the UPDATE
            [rc |-> rc, ret |-> NoTask, error |-> failAt]
       ELSE [rc |-> SetStageStatus(rc, row.id, "processing"),
             ret |-> MapRawRow([row EXCEPT !.topics_status = "processing"]),
             error |-> "none"]

(***************************************************************************)
(* Store: topics.                                                          *)
(***************************************************************************)
MaxOf(S) == CHOOSE m \in S : \A x \in S : x <= m

\* topics.id is INTEGER PRIMARY KEY without AUTOINCREMENT: a new row gets the
\* largest id in the table plus one.
NextTopicId(tp) == IF tp = {} THEN 1 ELSE MaxOf({t.id : t \in tp}) + 1

\* Faulty variant: the DELETE is left out: the new rows are merged into the old ones.
DeleteNoTopics(tp, id) == tp

\* DELETE FROM topics WHERE raw_content_id = ?
DeleteTopics(tp, id) == {t \in tp : t.raw_content_id # id}

\* One INSERT INTO topics.
InsertTopic(tp, id, topic) ==
  tp \cup { [id |-> NextTopicId(tp), raw_content_id |-> id, name |-> topic.name,
             content |-> topic.content, keywords |-> topic.keywords,
             generated_by_model |-> topic.generatedByModel] }

RECURSIVE InsertTopics(_, _, _, _)
\* The first n INSERTs of the loop over `list`.
InsertTopics(tp, id, list, n) ==
  IF n = 0 THEN tp
  ELSE InsertTopic(InsertTopics(tp, id, list, n - 1), id, list[n])

\* The statements replaceTopics runs inside its transaction: 1 is the DELETE,
\* 1 + k the k-th INSERT, 2 + Len(list) the COMMIT.  The table after the first n
\* of them.
ReplaceStatements(tp, id, list, n) ==
  IF n = 0 THEN tp
  ELSE InsertTopics(DeleteTopics(tp, id), id, list,
                    IF n - 1 <= Len(list) THEN n - 1 ELSE Len(list))

\* The statement that throws: failAt if the environment fails one (0: none), and
\* otherwise the first INSERT when the foreign key raw_content_id has no row.
ReplaceFailsAt(rc, id, list, failAt) ==
  IF failAt # 0 THEN failAt
  ELSE IF Len(list) > 0 /\ ~HasRow(rc, id) THEN 2
  ELSE 0

\* Faulty variant: the statements run outside a transaction: what ran before the
\* failing statement stays.
ReplaceTopicsNoTransaction(tp, rc, id, list, failAt) ==
  LET f == ReplaceFailsAt(rc, id, list, failAt) IN
  IF f = 0
  THEN [tp |-> ReplaceStatements(tp, id, list, 1 + Len(list)), error |-> "none"]
  ELSE [tp |-> ReplaceStatements(tp, id, list, f - 1), error |-> "replace"]

\* replaceTopics: database.transaction(...) commits all statements or, when one
\* throws, rolls all of them back and rethrows.
ReplaceTopics(tp, rc, id, list, failAt) ==
  LET f == ReplaceFailsAt(rc, id, list, failAt) IN
  IF f = 0
  THEN [tp |-> ReplaceStatements(tp, id, list, 1 + Len(list)), error |-> "none"]
  ELSE [tp |-> tp, error |-> "replace"]

(***************************************************************************)
(* Store: channel_metadata and the date-range query.  The columns          *)
(* resolved_at and last_checked (wall-clock readings) are left out; no     *)
(* operation modelled here reads them.  The query's result is given as the *)
(* set of its rows, without its order (publish_date, then generated_at).   *)
(***************************************************************************)
\* What storeChannelMetadata can be handed.
MetadataInputs ==
  [accountName : {"@a", "@b"}, source : {"youtube", "telegram"}, channelId : {"UC1", "UC2"},
   channelTitle : {"t"}, subscriberCount : {0, 5}]

\* storeChannelMetadata: INSERT OR REPLACE on a table whose PRIMARY KEY is
\* account_name: a row of the same account_name is deleted, whatever its source.
\* `metadata.subscriberCount || null` stores NULL (here <<>>) for 0.
StoreChannelMetadata(cm, metadata) ==
  {r \in cm : r.account_name # metadata.accountName}
    \cup { [account_name |-> metadata.accountName, source |-> metadata.source,
            channel_id |-> metadata.channelId, channel_title |-> metadata.channelTitle,
            subscriber_count |-> IF metadata.subscriberCount = 0 THEN <<>>
                                 ELSE <<metadata.subscriberCount>>] }

\* getCachedChannelId: SELECT channel_id ... WHERE source = ? AND account_name = ?
GetCachedChannelId(cm, source, accountName) ==
  LET rows == {r \in cm : r.source = source /\ r.account_name = accountName} IN
  IF rows = {} THEN "null" ELSE (CHOOSE r \in rows : TRUE).channel_id

Max(a, b) == IF a >= b THEN a ELSE b

\* Faulty variant: WHERE rc.publish_date > ?
GetTopicsByDateRangeExclusive(rc, tp, cm, days, now) ==
  LET windowStart == ToISOString(now - Max(days, 1) * DayLength) IN
  { [topicId |-> p[1].id, topicName |-> p[1].name, account |-> p[2].account,
     source |-> p[2].source, publishDate |-> ParseDate(p[2].publish_date)]
    : p \in {q \in tp \X rc : /\ q[1].raw_content_id = q[2].id
                              /\ TextLess(windowStart, q[2].publish_date)} }

\* getTopicsByDateRange(days) called when Date.now() is `now`, without an
\* account filter: topics INNER JOIN raw_content LEFT JOIN channel_metadata
\* WHERE rc.publish_date >= windowStart.toISOString(), a comparison of TEXT.
GetTopicsByDateRange(rc, tp, cm, days, now) ==
  LET windowStart == ToISOString(now - Max(days, 1) * DayLength)
      Subscribers(r) ==
        LET m == {x \in cm : x.account_name = r.account /\ x.source = r.source} IN
        IF m = {} THEN <<>> ELSE (CHOOSE x \in m : TRUE).subscriber_count
  IN { [topicId |-> p[1].id, topicName |-> p[1].name, account |-> p[2].account,
        source |-> p[2].source, publishDate |-> ParseDate(p[2].publish_date),
        subscriberCount |-> Subscribers(p[2])]
       : p \in {q \in tp \X rc : /\ q[1].raw_content_id = q[2].id
                                 /\ ~TextLess(q[2].publish_date, windowStart)} }

(***************************************************************************)
(* Store: transactions.  What a Store call leaves of the connection's      *)
(* transaction, from the statements of the call that ran without throwing. *)
(***************************************************************************)
RECURSIVE TxAfter(_, _)
\* The connection is inside a transaction after `stmts`, being so or not before.
TxAfter(open, stmts) ==
  IF stmts = <<>> THEN open
  ELSE TxAfter(IF Head(stmts) = "BEGIN" THEN TRUE
               ELSE IF Head(stmts) \in {"COMMIT", "ROLLBACK"} THEN FALSE
               ELSE open,
               Tail(stmts))

\* Faulty variant: the COMMIT after the UPDATE is left to the caller, once the
\* item is processed.
ClaimTransactionHeld(sel, failAt) ==
  IF failAt = "begin" THEN <<>>
  ELSE IF failAt = "select" THEN <<"BEGIN", "ROLLBACK">>
  ELSE IF sel = {}
  THEN <<"BEGIN", "SELECT", IF failAt = "commit" THEN "ROLLBACK" ELSE "COMMIT">>
  ELSE IF failAt = "update" THEN <<"BEGIN", "SELECT", "ROLLBACK">>
  ELSE <<"BEGIN", "SELECT", "UPDATE">>

\* claimRawContentForTopics: BEGIN IMMEDIATE, the SELECT, the UPDATE when a row
\* was found, COMMIT; the catch block runs ROLLBACK (which throws in turn when
\* BEGIN itself failed).
ClaimTransaction(sel, failAt) ==
  IF failAt = "begin" THEN <<>>
  ELSE IF failAt = "select" THEN <<"BEGIN", "ROLLBACK">>
  ELSE IF sel = {}
  THEN <<"BEGIN", "SELECT", IF failAt = "commit" THEN "ROLLBACK" ELSE "COMMIT">>
  ELSE IF failAt = "update" THEN <<"BEGIN", "SELECT", "ROLLBACK">>
  ELSE <<"BEGIN", "SELECT", "UPDATE", IF failAt = "commit" THEN "ROLLBACK" ELSE "COMMIT">>

\* replaceTopics on a list of n topics whose statement f throws (0: none):
\* database.transaction(...) runs BEGIN, the statements, and COMMIT or ROLLBACK.
ReplaceTransaction(n, f) ==
  LET ran == IF f = 0 THEN n + 1 ELSE f - 1 IN
  <<"BEGIN">> \o [k \in 1..ran |-> IF k = 1 THEN "DELETE" ELSE "INSERT"]
              \o <<IF f = 0 THEN "COMMIT" ELSE "ROLLBACK">>

RECURSIVE Flatten(_)
Flatten(seqs) == IF seqs = <<>> THEN <<>> ELSE Head(seqs) \o Flatten(Tail(seqs))

(***************************************************************************)
(* What replaceTopics is handed: lists of {name, content, keywords,        *)
(* generatedByModel}.                                                      *)
(***************************************************************************)
ModelName == "m"

TopicA == [name |-> <<"a">>, content |-> <<"x">>, keywords |-> <<"k">>, generatedByModel |-> ModelName]

TopicB == [name |-> <<"b">>, content |-> <<"y">>, keywords |-> <<" ", "k">>, generatedByModel |-> ModelName]

TopicLists == { <<>>, <<TopicA>>, <<TopicB, TopicA>> }

\* The topics of one item in insertion order, as {name, content, keywords}.
TopicIdsOf(tp, id) == {t.id : t \in {u \in tp : u.raw_content_id = id}}

RECURSIVE SortedIds(_)
SortedIds(S) ==
  IF S = {} THEN <<>>
  ELSE LET m == MaxOf(S) IN Append(SortedIds(S \ {m}), m)

TopicRow(tp, n) == CHOOSE t \in tp : t.id = n

StoredTopics(tp, id) ==
  LET ids == SortedIds(TopicIdsOf(tp, id)) IN
  [k \in 1..Len(ids) |->
     [name |-> TopicRow(tp, ids[k]).name, content |-> TopicRow(tp, ids[k]).content,
      keywords |-> TopicRow(tp, ids[k]).keywords,
      generatedByModel |-> TopicRow(tp, ids[k]).generated_by_model]]

(***************************************************************************)
(* Extraction stage (TopicGenerationService).                              *)
(***************************************************************************)
NameMaxLen == 120

Whitespace == {" "}

RECURSIVE TrimStart(_)
TrimStart(s) == IF s # <<>> /\ Head(s) \in Whitespace THEN TrimStart(Tail(s)) ELSE s

RECURSIVE TrimEnd(_)
TrimEnd(s) ==
  IF s # <<>> /\ s[Len(s)] \in Whitespace THEN TrimEnd(SubSeq(s, 1, Len(s) - 1)) ELSE s

\* String.prototype.trim
Trim(s) == TrimEnd(TrimStart(s))

\* TopicsResponseSchema
SchemaValid(parsed) ==
  /\ Len(parsed) >= 1
  /\ \A k \in 1..Len(parsed) :
       /\ Len(parsed[k].name) >= 1
       /\ Len(parsed[k].name) <= NameMaxLen
       /\ Len(parsed[k].content) >= 1
       /\ Len(parsed[k].keyowrds) >= 1

EntryPlain == [name |-> <<"a">>, content |-> <<"x">>, keyowrds |-> <<"k">>]

EntryPadded == [name |-> <<" ", "b", " ">>, content |-> <<" ", "y">>, keyowrds |-> <<" ", "k">>]

EntryBlankName == [name |-> <<" ">>, content |-> <<"x">>, keyowrds |-> <<"k">>]

EntryBlank == [name |-> <<" ">>, content |-> <<" ">>, keyowrds |-> <<"x">>]

EntryNoName == [name |-> <<>>, content |-> <<"x">>, keyowrds |-> <<"k">>]

\* What the provider can send back as the structured output.
ModelOutputs ==
  { <<EntryPlain>>, <<EntryPadded, EntryBlankName, EntryPlain>>, <<EntryBlank>>,
    <<>>, <<EntryNoName>> }

\* A response without parsed content (a refusal).
UnparsedResponse == [parsed |-> "undefined"]

\* Faulty variant: the filter on the trimmed name and content is left out.
GeneratedTopicsUnfiltered(response) ==
  IF response.parsed # "object" THEN <<>>
  ELSE [k \in 1..Len(response.topics) |->
          [name |-> Trim(response.topics[k].name),
           content |-> Trim(response.topics[k].content),
           keywords |-> response.topics[k].keyowrds,
           generatedByModel |-> ModelName]]

\* response.parsed?.topics?.map(...).filter(...): undefined is shown as <<>>,
\* which the code treats the same way.
GeneratedTopics(response) ==
  IF response.parsed # "object" THEN <<>>
  ELSE LET mapped == [k \in 1..Len(response.topics) |->
                        [name |-> Trim(response.topics[k].name),
                         content |-> Trim(response.topics[k].content),
                         keywords |-> response.topics[k].keyowrds,
                         generatedByModel |-> ModelName]]
       IN SelectSeq(mapped, LAMBDA t : t.name # <<>> /\ t.content # <<>>)

\* Faulty variant: the status is set to done before replaceTopics is called.
ProcessResponseStatusFirst(rc, tp, task, response, replaceFailAt, doneFails) ==
  LET list == GeneratedTopics(response) IN
  IF list = <<>>
  THEN [rc |-> rc, tp |-> tp, error |-> "LLM returned no topics"]
  ELSE IF doneFails
  THEN [rc |-> rc, tp |-> tp, error |-> "setStageStatus"]
  ELSE LET done == SetStageStatus(rc, task.id, "done")
           rep == ReplaceTopics(tp, done, task.id, list, replaceFailAt) IN
       [rc |-> done, tp |-> rep.tp, error |-> rep.error]

\* Faulty variant: the item's stored topics are deleted before the generated
\* list is tested for emptiness.
ProcessResponseClearingFirst(rc, tp, task, response, replaceFailAt, doneFails) ==
  LET list == GeneratedTopics(response) IN
  IF list = <<>>
  THEN [rc |-> rc, tp |-> DeleteTopics(tp, task.id), error |-> "LLM returned no topics"]
  ELSE LET rep == ReplaceTopics(tp, rc, task.id, list, replaceFailAt) IN
       IF rep.error # "none"
       THEN [rc |-> rc, tp |-> rep.tp, error |-> rep.error]
       ELSE IF doneFails
       THEN [rc |-> rc, tp |-> rep.tp, error |-> "setStageStatus"]
       ELSE [rc |-> SetStageStatus(rc, task.id, "done"), tp |-> rep.tp, error |-> "none"]

\* processContent from the return of llm.complete to its end: the error it
\* throws ("none": it returns) and the tables afterwards.  replaceFailAt names
\* the statement of replaceTopics that fails (0: none), doneFails whether the
\* status UPDATE throws.
ProcessResponse(rc, tp, task, response, replaceFailAt, doneFails) ==
  LET list == GeneratedTopics(response) IN
  IF list = <<>>
  THEN [rc |-> rc, tp |-> tp, error |-> "LLM returned no topics"]
  ELSE LET rep == ReplaceTopics(tp, rc, task.id, list, replaceFailAt) IN
       IF rep.error # "none"
       THEN [rc |-> rc, tp |-> rep.tp, error |-> rep.error]
       ELSE IF doneFails
       THEN [rc |-> rc, tp |-> rep.tp, error |-> "setStageStatus"]
       ELSE [rc |-> SetStageStatus(rc, task.id, "done"), tp |-> rep.tp, error |-> "none"]

\* Faulty variant: UPDATE ... SET topics_status = 'error' WHERE topics_status = 'processing'.
HandleTaskErrorAllInFlight(rc, task, errorFails) ==
  IF errorFails /\ task # NoTask
  THEN [rc |-> rc, threw |-> TRUE]
  ELSE [rc |-> { IF r.topics_status = "processing"
                 THEN [r EXCEPT !.topics_status = "error"] ELSE r : r \in rc },
        threw |-> FALSE]

\* Faulty variant: the hook puts the failed item back to pending, to be retried.
HandleTaskErrorRetrying(rc, task, errorFails) ==
  IF task # NoTask
  THEN IF errorFails
       THEN [rc |-> rc, threw |-> TRUE]
       ELSE [rc |-> SetStageStatus(rc, task.id, "pending"), threw |-> FALSE]
  ELSE [rc |-> rc, threw |-> FALSE]

\* handleTaskError(task, error): the table afterwards and whether it throws.
HandleTaskError(rc, task, errorFails) ==
  IF task # NoTask
  THEN IF errorFails
       THEN [rc |-> rc, threw |-> TRUE]
       ELSE [rc |-> SetStageStatus(rc, task.id, "error"), threw |-> FALSE]
  ELSE [rc |-> rc, threw |-> FALSE]

(***************************************************************************)
(* Worker pool (BaseProcessorService).                                     *)
(***************************************************************************)
\* Faulty variant: workerCount = options.workerCount
WorkerCountUnclamped(configured) == configured

\* workerCount = Math.max(1, options.workerCount)
WorkerCount(configured) == IF configured >= 1 THEN configured ELSE 1

NoWorker == [pc |-> "none", task |-> NoTask]

Worker(pc, task) == [pc |-> pc, task |-> task]

\* An order of the ids that settles which of several rows of equal publish_date
\* the SELECT returns.
TieBreaks ==
  {p \in [Ids -> 1..Cardinality(Ids)] : \A a, b \in Ids : a # b => p[a] # p[b]}

ClaimPick(rc, prio) ==
  LET c == ClaimSelect(rc) IN
  IF c = {} THEN {} ELSE {CHOOSE r \in c : \A o \in c : prio[r.id] <= prio[o.id]}

\* Faulty variant: an error thrown by handleTaskError is swallowed and the loop
\* goes on.
CatchBlockResuming(rc, tp, task, errorFails) ==
  LET h == HandleTaskError(rc, task, errorFails) IN
  [rc |-> h.rc, tp |-> tp, worker |-> Worker("error_wait", NoTask)]

\* Faulty variant: no catch block: an error thrown in the loop body ends the loop.
CatchBlockMissing(rc, tp, task, errorFails) ==
  [rc |-> rc, tp |-> tp, worker |-> Worker("crashed", NoTask)]

\* Faulty variant: the catch block calls handleTaskError(null, error) whatever
\* threw.
CatchBlockWithoutTask(rc, tp, task, errorFails) ==
  LET h == HandleTaskError(rc, NoTask, errorFails) IN
  [rc |-> h.rc, tp |-> tp,
   worker |-> Worker(IF h.threw THEN "crashed" ELSE "error_wait", NoTask)]

\* The catch block of runWorker: handleTaskError, then the error delay; an
\* error thrown by handleTaskError leaves the loop (the worker "crashed").
CatchBlock(rc, tp, task, errorFails) ==
  LET h == HandleTaskError(rc, task, errorFails) IN
  [rc |-> h.rc, tp |-> tp,
   worker |-> Worker(IF h.threw THEN "crashed" ELSE "error_wait", NoTask)]

\* Faulty variant: claimContent is called outside the try block.
LoopTopClaimUncaught(rc, tp, stop, sel, failAt) ==
  IF stop
  THEN [rc |-> rc, tp |-> tp, worker |-> Worker("stopped", NoTask)]
  ELSE LET res == ClaimRawContentForTopics(rc, sel, failAt) IN
       IF res.error # "none" THEN [rc |-> res.rc, tp |-> tp, worker |-> Worker("crashed", NoTask)]
       ELSE IF res.ret = NoTask
       THEN [rc |-> res.rc, tp |-> tp, worker |-> Worker("idle_wait", NoTask)]
       ELSE [rc |-> res.rc, tp |-> tp, worker |-> Worker("processing", res.ret)]

\* Faulty variant: a loop whose claim returns no task ends instead of waiting
\* for the idle delay.
LoopTopEndingWhenIdle(rc, tp, stop, sel, failAt) ==
  IF stop
  THEN [rc |-> rc, tp |-> tp, worker |-> Worker("stopped", NoTask)]
  ELSE LET res == ClaimRawContentForTopics(rc, sel, failAt) IN
       IF res.error # "none" THEN CatchBlock(res.rc, tp, NoTask, FALSE)
       ELSE IF res.ret = NoTask
       THEN [rc |-> res.rc, tp |-> tp, worker |-> Worker("stopped", NoTask)]
       ELSE [rc |-> res.rc, tp |-> tp, worker |-> Worker("processing", res.ret)]

\* runWorker from the test of its while loop to its next suspension: stopped,
\* or a claim followed by the idle delay, the error delay or the model call.
\* `sel` is what the SELECT of the claim returns (empty or one row).
LoopTop(rc, tp, stop, sel, failAt) ==
  IF stop
  THEN [rc |-> rc, tp |-> tp, worker |-> Worker("stopped", NoTask)]
  ELSE LET res == ClaimRawContentForTopics(rc, sel, failAt) IN
       IF res.error # "none" THEN CatchBlock(res.rc, tp, NoTask, FALSE)
       ELSE IF res.ret = NoTask
       THEN [rc |-> res.rc, tp |-> tp, worker |-> Worker("idle_wait", NoTask)]
       ELSE [rc |-> res.rc, tp |-> tp, worker |-> Worker("processing", res.ret)]

\* The ids of the tasks the step hands to a loop.
TasksTaken ==
  {workers'[w].task.id :
     w \in {v \in DOMAIN workers : workers'[v].pc = "processing" /\ workers[v].pc # "processing"}}

RECURSIVE SpawnWorkers(_, _, _, _, _)
\* start(): runWorker(1) .. runWorker(n) are called one after another, and each
\* runs up to its first suspension before the next is called.
SpawnWorkers(rc, tp, n, prio, failAts) ==
  IF n = 0 THEN [rc |-> rc, tp |-> tp, workers |-> [w \in WorkerIds |-> NoWorker]]
  ELSE LET before == SpawnWorkers(rc, tp, n - 1, prio, failAts)
           step == LoopTop(before.rc, before.tp, FALSE, ClaimPick(before.rc, prio), failAts[n])
       IN [rc |-> step.rc, tp |-> step.tp,
           workers |-> [before.workers EXCEPT ![n] = step.worker]]

(***************************************************************************)
(* Ingestion: DataIngestionService.  dataSources is the list of adapters   *)
(* built from the configuration; every start() runs fetchAndScheduleNext,  *)
(* which fetches the adapters in turn, sets a timeout for its own next run *)
(* and keeps the handle in this.timer.  A chain is one start() call and    *)
(* the runs that follow from it.                                           *)
(***************************************************************************)
Chains == 1..MaxStarts

\* The adapter lists initializeFromConfig can build (one adapter per
\* configured account that has an api key), by account name.
AdapterConfigs == {<<>>, <<"@a">>, <<"@a", "@b">>}

\* A chain: where it is ("none": not started, "fetching": inside source.fetch()
\* of adapter idx, "waiting": its run has ended), the adapters whose fetch it
\* called in its current or last cycle and how those that ended did, the
\* fetches in progress, and its timeouts that have neither fired nor been
\* cleared.
NoChain ==
  [pc |-> "none", idx |-> 0, fetched |-> <<>>, results |-> <<>>, inflight |-> {}, pending |-> 0]

\* `stopped` records that stop() was the last of the start() and stop() calls.
NotStarted ==
  [sources |-> <<>>, timer |-> 0, chains |-> [c \in Chains |-> NoChain], stopped |-> FALSE]

\* fetchAndScheduleNext from the k-th adapter on: source.fetch() of adapter k
\* is called, or, after the last adapter, setTimeout schedules the next run.
RunFrom(chain, sources, k) ==
  IF k <= Len(sources)
  THEN [chain EXCEPT !.pc = "fetching", !.idx = k,
                     !.fetched = Append(@, sources[k]), !.inflight = @ \cup {k}]
  ELSE [chain EXCEPT !.pc = "waiting", !.idx = 0, !.pending = @ + 1]

\* Faulty variant: the next run is scheduled when a run begins (as setInterval
\* would), not when it ends.
BeginCycleOnInterval(chain, sources) ==
  RunFrom([chain EXCEPT !.fetched = <<>>, !.results = <<>>, !.inflight = {}, !.pending = @ + 1],
          sources, 1)

\* fetchAndScheduleNext is called: by start(), or by its timeout.
BeginCycle(chain, sources) ==
  RunFrom([chain EXCEPT !.fetched = <<>>, !.results = <<>>, !.inflight = {}], sources, 1)

\* Faulty variant: one try/catch around the whole for loop: a failed fetch ends
\* the loop.
FetchEndAborting(chain, sources, ok) ==
  RunFrom([chain EXCEPT !.results = Append(@, IF ok THEN "ok" ELSE "failed"),
                        !.inflight = @ \ {chain.idx}],
          sources, IF ok THEN chain.idx + 1 ELSE Len(sources) + 1)

\* await source.fetch() returns (ok) or throws: the try/catch inside the loop
\* counts it, and the loop goes on with the next adapter.
FetchEnd(chain, sources, ok) ==
  RunFrom([chain EXCEPT !.results = Append(@, IF ok THEN "ok" ELSE "failed"),
                        !.inflight = @ \ {chain.idx}],
          sources, chain.idx + 1)

\* this.timer after chain c went from `before` to `after`: the handle of the
\* timeout it set, if it set one.
TimerAfter(timer, c, before, after) == IF after.pending > before.pending THEN c ELSE timer

(***************************************************************************)
(* StoreSpec: the Store's operations called in any order on one            *)
(* connection.  Every operation is synchronous (better-sqlite3), so a call *)
(* is one step, and calls issued concurrently run one after another.       *)
(***************************************************************************)
NumPending(rc) == Cardinality({r \in rc : r.topics_status = "pending"})

\* A process whose Store is initialized on a new file and that runs no pool.
StoreInit ==
  /\ raw_content = {}
  /\ topics = {}
  /\ phase = "initialized"
  /\ resets = 1
  /\ configWorkers = 0
  /\ isRunning = FALSE
  /\ shouldStop = FALSE
  /\ workers = [w \in WorkerIds |-> NoWorker]
  /\ toldToStop = {}
  /\ claimedInRun = {}
  /\ txOpen = FALSE
  /\ channel_metadata = {}
  /\ ingest = NotStarted
  /\ last = [op |-> "initialize", changes |-> 0, from |-> {}]

\* insertRawContent(item)
CallInsert(item) ==
  /\ raw_content' = InsertRawContent(raw_content, item)
  /\ UNCHANGED <<topics, txOpen>>
  /\ last' = [op |-> "insert", item |-> item, existed |-> HasRow(raw_content, item.id)]
  /\ UNCHANGED <<procVars, sideVars, poolVars>>

\* claimRawContentForTopics()
CallClaim(failAt) ==
  LET rets == IF last.op = "claim" THEN last.rets ELSE <<>>
      pending == IF last.op = "claim" THEN last.pending ELSE NumPending(raw_content) IN
  /\ Len(rets) < MaxBurst
  /\ \E sel \in SelectOutcomes(raw_content) :
       LET res == ClaimRawContentForTopics(raw_content, sel, failAt) IN
       /\ raw_content' = res.rc
       /\ txOpen' = TxAfter(txOpen, ClaimTransaction(sel, failAt))
       /\ last' = [op |-> "claim", pending |-> pending,
                   rets |-> IF res.error # "none" THEN rets ELSE Append(rets, res.ret),
                   failedAt |-> IF res.error # "none" THEN failAt ELSE "none",
                   error |-> res.error]
  /\ topics' = topics
  /\ UNCHANGED <<procVars, sideVars, poolVars>>

\* replaceTopics(id, list)
CallReplace(id, list, failAt) ==
  LET res == ReplaceTopics(topics, raw_content, id, list, failAt) IN
  /\ failAt <= 2 + Len(list)
  /\ \A t \in res.tp : t.id <= MaxTopicId
  /\ topics' = res.tp
  /\ raw_content' = raw_content
  /\ txOpen' = TxAfter(txOpen, ReplaceTransaction(Len(list),
                                                  ReplaceFailsAt(raw_content, id, list, failAt)))
  /\ last' = [op |-> "replace", id |-> id, list |-> list, error |-> res.error,
              failedAt |-> ReplaceFailsAt(raw_content, id, list, failAt),
              after |-> IF last.op = "replace" /\ last.id = id /\ last.error = "none"
                        THEN <<last.list>> ELSE <<>>]
  /\ UNCHANGED <<procVars, sideVars, poolVars>>

\* setStageStatus(id, 'topics', status)
CallSetStatus(id, status) ==
  /\ raw_content' = SetStageStatus(raw_content, id, status)
  /\ UNCHANGED <<topics, txOpen>>
  /\ last' = [op |-> "setStatus"]
  /\ UNCHANGED <<procVars, sideVars, poolVars>>

\* initialize() on the existing file: CREATE TABLE IF NOT EXISTS, then resetInFlightRawContent()
CallInitialize ==
  /\ raw_content' = ResetInFlightRawContent(raw_content)
  /\ UNCHANGED <<topics, txOpen>>
  /\ last' = [op |-> "initialize", changes |-> ResetChanges(raw_content),
              from |-> {r.topics_status : r \in raw_content}]
  /\ UNCHANGED <<procVars, sideVars, poolVars>>

StoreNext ==
  \/ \E item \in ItemInputs : CallInsert(item)
  \/ \E failAt \in ClaimFailPoints : CallClaim(failAt)
  \/ \E id \in Ids : CallReplace(id, <<TopicA>>, 0)
  \/ \E id \in Ids, status \in Statuses : CallSetStatus(id, status)
  \/ CallInitialize

StoreSpec == StoreInit /\ [][StoreNext]_vars

(***************************************************************************)
(* TopicsSpec: replaceTopics called with any list on any id, present or    *)
(* not, with any of its statements failing.                                *)
(***************************************************************************)
FirstVersions == {item \in ItemInputs : item.publishDate >= 10}

TopicsNext ==
  \/ \E item \in FirstVersions : CallInsert(item)
  \/ \E id \in Ids, list \in TopicLists, failAt \in 0..4 : CallReplace(id, list, failAt)

TopicsSpec == StoreInit /\ [][TopicsNext]_vars

(***************************************************************************)
(* Spec: the program.  main() initializes the Store, starts ingestion and  *)
(* the topic pool; the process ends by gracefulShutdown or by being        *)
(* killed, and is started again on the same database file.                 *)
(***************************************************************************)
\* What the adapters fetch, here two items of one publish instant: the YouTube
\* adapter saves an id only while isFetched(id) is false, so each id is
\* inserted once.
FetchedItems == {item \in ItemInputs : item.publishDate = 11}

\* What the Store can fail while processContent and the catch block run: one
\* statement of replaceTopics, the UPDATE to done, the UPDATE to error.
StoreFaults == [replaceFailAt : 0..4, doneFails : BOOLEAN, errorFails : BOOLEAN]

\* The statements that `fault` fails are run when the model replies `reply`.
FaultReached(reply, fault) ==
  LET n == Len(GeneratedTopics(reply)) IN
  /\ fault.replaceFailAt # 0 => n > 0 /\ fault.replaceFailAt <= 2 + n /\ ~fault.doneFails
  /\ fault.doneFails => n > 0
  /\ fault.errorFails => n = 0 \/ fault.replaceFailAt # 0 \/ fault.doneFails

NoCall == [op |-> "none"]

\* llm.complete threw: processContent has no response.
NoReply == [parsed |-> "thrown"]

ModelReplies == {UnparsedResponse} \cup {[parsed |-> "object", topics |-> o] : o \in ModelOutputs}

Init ==
  /\ raw_content = {}
  /\ topics = {}
  /\ phase = "down"
  /\ resets = 0
  /\ configWorkers \in ConfigWorkerCounts
  /\ isRunning = FALSE
  /\ shouldStop = FALSE
  /\ workers = [w \in WorkerIds |-> NoWorker]
  /\ toldToStop = {}
  /\ claimedInRun = {}
  /\ txOpen = FALSE
  /\ channel_metadata = {}
  /\ ingest = NotStarted
  /\ last = NoCall

\* Faulty variant: initialize() returns without resetInFlightRawContent().
InitializeWithoutReset ==
  /\ phase = "down"
  /\ phase' = "initialized"
  /\ UNCHANGED <<storeVars, resets, configWorkers, sideVars, poolVars>>
  /\ last' = [op |-> "none"]

\* main() up to the return of sqliteStorage.initialize()
Initialize ==
  /\ phase = "down"
  /\ phase' = "initialized"
  /\ raw_content' = ResetInFlightRawContent(raw_content)
  /\ resets' = resets + 1
  /\ UNCHANGED <<topics, txOpen, configWorkers, sideVars, poolVars>>
  /\ last' = NoCall

\* initialize() throws before the reset (mkdir, open or CREATE TABLE failed):
\* main() logs and exits.
InitializeFails ==
  /\ phase = "down"
  /\ UNCHANGED <<storeVars, phase, resets, configWorkers, sideVars, poolVars>>
  /\ last' = [op |-> "exit", code |-> 1]

\* BaseProcessorService.start(), called by main() once initialize() returned
StartServices(prio, failAts) ==
  /\ phase = "initialized"
  /\ phase' = "running"
  /\ IF isRunning
     THEN UNCHANGED <<storeVars, poolVars>>
     ELSE LET sp == SpawnWorkers(raw_content, topics, WorkerCount(configWorkers), prio, failAts) IN
          /\ shouldStop' = FALSE
          /\ isRunning' = TRUE
          /\ workers' = sp.workers
          /\ toldToStop' = toldToStop
          /\ claimedInRun' = claimedInRun \cup TasksTaken
          /\ raw_content' = sp.rc
          /\ topics' = sp.tp
          /\ txOpen' = TxAfter(txOpen, Flatten(
               [k \in 1..WorkerCount(configWorkers) |->
                  ClaimTransaction(
                    ClaimPick(SpawnWorkers(raw_content, topics, k - 1, prio, failAts).rc, prio),
                    failAts[k])]))
  /\ UNCHANGED <<resets, configWorkers, sideVars>>
  /\ last' = NoCall

\* An adapter's fetchImpl saves one new item (saveContent -> insertRawContent).
Ingest(item) ==
  /\ phase = "running"
  /\ ~IsFetched(raw_content, item.id)
  /\ raw_content' = InsertRawContent(raw_content, item)
  /\ UNCHANGED <<topics, txOpen, procVars, sideVars, poolVars>>
  /\ last' = NoCall

\* Faulty variant: stop() cuts the delays short: a loop in a delay ends as soon
\* as the flag is set.
SleepEndObservingStop(w) ==
  /\ phase = "running"
  /\ workers[w].pc \in {"idle_wait", "error_wait"}
  /\ workers' = [workers EXCEPT ![w] = Worker(IF shouldStop THEN "stopped" ELSE "polling", NoTask)]
  /\ UNCHANGED <<storeVars, procVars, sideVars, isRunning, shouldStop, toldToStop, claimedInRun>>
  /\ last' = NoCall

\* The delay of an idle or error wait ends.
SleepEnd(w) ==
  /\ phase = "running"
  /\ workers[w].pc \in {"idle_wait", "error_wait"}
  /\ workers' = [workers EXCEPT ![w] = Worker("polling", NoTask)]
  /\ UNCHANGED <<storeVars, procVars, sideVars, isRunning, shouldStop, toldToStop, claimedInRun>>
  /\ last' = NoCall

\* Faulty variant: the claim's transaction stays open until processContent
\* returns, so no other loop can claim while a model call is in flight.
PollBlockedByCall(w, failAt) ==
  /\ phase = "running"
  /\ workers[w].pc = "polling"
  /\ \A v \in WorkerIds \ {w} : workers[v].pc # "processing"
  /\ \E sel \in SelectOutcomes(raw_content) :
       LET step == LoopTop(raw_content, topics, shouldStop, sel, failAt) IN
       /\ workers' = [workers EXCEPT ![w] = step.worker]
       /\ raw_content' = step.rc
       /\ topics' = step.tp
       /\ txOpen' = IF shouldStop THEN txOpen
                    ELSE TxAfter(txOpen, ClaimTransaction(sel, failAt))
       /\ last' = NoCall
  /\ UNCHANGED <<procVars, sideVars, isRunning, shouldStop, toldToStop>>
  /\ claimedInRun' = claimedInRun \cup TasksTaken

\* runWorker at the test of its loop.
Poll(w, failAt) ==
  /\ phase = "running"
  /\ workers[w].pc = "polling"
  /\ \E sel \in SelectOutcomes(raw_content) :
       LET step == LoopTop(raw_content, topics, shouldStop, sel, failAt) IN
       /\ workers' = [workers EXCEPT ![w] = step.worker]
       /\ raw_content' = step.rc
       /\ topics' = step.tp
       /\ txOpen' = IF shouldStop THEN txOpen
                    ELSE TxAfter(txOpen, ClaimTransaction(sel, failAt))
       /\ last' = IF ~shouldStop /\ ClaimRawContentForTopics(raw_content, sel, failAt).error # "none"
                  THEN [op |-> "claimContent", worker |-> w, task |-> NoTask,
                        failedAt |-> failAt, hook |-> "returned"]
                  ELSE NoCall
  /\ UNCHANGED <<procVars, sideVars, isRunning, shouldStop, toldToStop>>
  /\ claimedInRun' = claimedInRun \cup TasksTaken

\* llm.complete throws (network, provider, or a reply the schema rejects).
LlmThrows(w, errorFails) ==
  /\ phase = "running"
  /\ workers[w].pc = "processing"
  /\ LET c == CatchBlock(raw_content, topics, workers[w].task, errorFails) IN
     /\ workers' = [workers EXCEPT ![w] = c.worker]
     /\ raw_content' = c.rc
     /\ topics' = c.tp
  /\ UNCHANGED <<txOpen, procVars, sideVars, isRunning, shouldStop, toldToStop, claimedInRun>>
  /\ last' = [op |-> "processContent", worker |-> w, task |-> workers[w].task,
              reply |-> NoReply, error |-> "llm.complete",
              hook |-> IF errorFails THEN "threw" ELSE "returned"]

\* llm.complete returns `reply`; processContent runs to its end, and on an
\* error the catch block of runWorker runs.
LlmReturns(w, reply, fault) ==
  /\ phase = "running"
  /\ workers[w].pc = "processing"
  /\ reply.parsed = "object" => SchemaValid(reply.topics)
  /\ FaultReached(reply, fault)
  /\ LET task == workers[w].task
         res == ProcessResponse(raw_content, topics, task, reply,
                                fault.replaceFailAt, fault.doneFails)
         c == CatchBlock(res.rc, res.tp, task, fault.errorFails)
         end == IF res.error = "none"
                THEN [rc |-> res.rc, tp |-> res.tp, worker |-> Worker("polling", NoTask)]
                ELSE c
     IN /\ \A t \in end.tp : t.id <= MaxTopicId
        /\ workers' = [workers EXCEPT ![w] = end.worker]
        /\ raw_content' = end.rc
        /\ topics' = end.tp
        /\ txOpen' = LET list == GeneratedTopics(reply) IN
                     IF list = <<>> THEN txOpen
                     ELSE TxAfter(txOpen, ReplaceTransaction(Len(list),
                            ReplaceFailsAt(raw_content, task.id, list, fault.replaceFailAt)))
        /\ last' = [op |-> "processContent", worker |-> w, task |-> task,
                    reply |-> reply, error |-> res.error,
                    hook |-> IF res.error = "none" THEN "none"
                             ELSE IF fault.errorFails THEN "threw" ELSE "returned"]
  /\ UNCHANGED <<procVars, sideVars, isRunning, shouldStop, toldToStop, claimedInRun>>

\* gracefulShutdown: stop() of both services, close(), process.exit(0).
GracefulShutdown ==
  /\ phase = "running"
  /\ phase' = "down"
  /\ resets' = 0
  /\ isRunning' = FALSE
  /\ shouldStop' = FALSE
  /\ workers' = [w \in WorkerIds |-> NoWorker]
  /\ toldToStop' = {}
  /\ claimedInRun' = {}
  /\ UNCHANGED <<storeVars, configWorkers, sideVars>>
  /\ last' = [op |-> "exit", code |-> 0]

\* The process is killed.
Crash ==
  /\ phase # "down"
  /\ phase' = "down"
  /\ resets' = 0
  /\ isRunning' = FALSE
  /\ shouldStop' = FALSE
  /\ workers' = [w \in WorkerIds |-> NoWorker]
  /\ toldToStop' = {}
  /\ claimedInRun' = {}
  /\ UNCHANGED <<storeVars, configWorkers, sideVars>>
  /\ last' = NoCall

Next ==
  \/ Initialize
  \/ InitializeFails
  \/ \E prio \in TieBreaks, failAts \in [WorkerIds -> ClaimFailPoints] : StartServices(prio, failAts)
  \/ \E item \in FetchedItems : Ingest(item)
  \/ \E w \in WorkerIds : SleepEnd(w)
  \/ \E w \in WorkerIds, failAt \in ClaimFailPoints : Poll(w, failAt)
  \/ \E w \in WorkerIds, errorFails \in BOOLEAN : LlmThrows(w, errorFails)
  \/ \E w \in WorkerIds, reply \in ModelReplies, fault \in StoreFaults :
       LlmReturns(w, reply, fault)
  \/ GracefulShutdown
  \/ Crash

Spec == Init /\ [][Next]_vars

(***************************************************************************)
(* LifecycleSpec: the program, with adapters that also save items the      *)
(* Store already has.  Fetcher.saveContent upserts without asking          *)
(* isFetched (only the YouTube adapter's fetchImpl asks first), so an      *)
(* adapter can hand in an id again, with the same or with other fields.    *)
(***************************************************************************)
\* saveContent -> insertRawContent for an id the Store has.
Reingest(item) ==
  /\ phase = "running"
  /\ IsFetched(raw_content, item.id)
  /\ raw_content' = InsertRawContent(raw_content, item)
  /\ UNCHANGED <<topics, txOpen, procVars, sideVars, poolVars>>
  /\ last' = [op |-> "saveContent", item |-> item]

LifecycleNext ==
  \/ Next
  \/ \E item \in ItemInputs : Reingest(item)

LifecycleSpec == Init /\ [][LifecycleNext]_vars

(***************************************************************************)
(* PoolSpec: one pool (BaseProcessorService) on an initialized Store,      *)
(* whose start() and stop() are called in any order and at any time.       *)
(***************************************************************************)
Loops == 1..MaxLoops

\* The loops that have not ended.
AliveLoops(ws) == {w \in DOMAIN ws : ws[w].pc \notin {"none", "stopped", "crashed"}}

\* The loops spawned so far.
SpawnedLoops(ws) == {w \in DOMAIN ws : ws[w].pc # "none"}

RECURSIVE SpawnMore(_, _, _, _, _, _)
\* start() on a pool whose earlier loops are ws: n more runWorker calls, each
\* running up to its first suspension before the next.
SpawnMore(rc, tp, ws, n, prio, failAts) ==
  IF n = 0 THEN [rc |-> rc, tp |-> tp, workers |-> ws]
  ELSE LET before == SpawnMore(rc, tp, ws, n - 1, prio, failAts)
           slot == Cardinality(SpawnedLoops(before.workers)) + 1
           step == LoopTop(before.rc, before.tp, FALSE, ClaimPick(before.rc, prio), failAts[n])
       IN [rc |-> step.rc, tp |-> step.tp,
           workers |-> [before.workers EXCEPT ![slot] = step.worker]]

PoolInit ==
  /\ raw_content = {}
  /\ topics = {}
  /\ phase = "running"
  /\ resets = 1
  /\ configWorkers \in ConfigWorkerCounts
  /\ isRunning = FALSE
  /\ shouldStop = FALSE
  /\ workers = [w \in Loops |-> NoWorker]
  /\ toldToStop = {}
  /\ claimedInRun = {}
  /\ txOpen = FALSE
  /\ channel_metadata = {}
  /\ ingest = NotStarted
  /\ last = NoCall

\* Faulty variant: start() without the isRunning test.
StartAlways(prio, failAts) ==
  /\ Cardinality(SpawnedLoops(workers)) + WorkerCount(configWorkers) <= MaxLoops
  /\ LET sp == SpawnMore(raw_content, topics, workers, WorkerCount(configWorkers), prio, failAts) IN
     /\ shouldStop' = FALSE
     /\ isRunning' = TRUE
     /\ workers' = sp.workers
     /\ raw_content' = sp.rc
     /\ topics' = sp.tp
     /\ txOpen' = TxAfter(txOpen, Flatten(
          [k \in 1..WorkerCount(configWorkers) |->
             ClaimTransaction(
               ClaimPick(SpawnMore(raw_content, topics, workers, k - 1, prio, failAts).rc, prio),
               failAts[k])]))
  /\ toldToStop' = toldToStop
  /\ claimedInRun' = claimedInRun \cup TasksTaken
  /\ last' = [op |-> "start", wasRunning |-> isRunning]
  /\ UNCHANGED <<procVars, sideVars>>

\* start()
Start(prio, failAts) ==
  /\ IF isRunning
     THEN UNCHANGED <<storeVars, isRunning, shouldStop, workers>>
     ELSE /\ Cardinality(SpawnedLoops(workers)) + WorkerCount(configWorkers) <= MaxLoops
          /\ LET sp == SpawnMore(raw_content, topics, workers, WorkerCount(configWorkers),
                                 prio, failAts) IN
             /\ shouldStop' = FALSE
             /\ isRunning' = TRUE
             /\ workers' = sp.workers
             /\ raw_content' = sp.rc
             /\ topics' = sp.tp
             /\ txOpen' = TxAfter(txOpen, Flatten(
                  [k \in 1..WorkerCount(configWorkers) |->
                     ClaimTransaction(
                       ClaimPick(SpawnMore(raw_content, topics, workers, k - 1, prio,
                                           failAts).rc, prio),
                       failAts[k])]))
  /\ toldToStop' = toldToStop
  /\ claimedInRun' = claimedInRun \cup TasksTaken
  /\ last' = [op |-> "start", wasRunning |-> isRunning]
  /\ UNCHANGED <<procVars, sideVars>>

\* Faulty variant: stop() abandons the tasks in progress.
StopInterrupting ==
  /\ isRunning
  /\ shouldStop' = TRUE
  /\ isRunning' = FALSE
  /\ workers' = [w \in DOMAIN workers |->
                   IF workers[w].pc = "processing" THEN Worker("stopped", NoTask) ELSE workers[w]]
  /\ toldToStop' = toldToStop \cup AliveLoops(workers)
  /\ last' = [op |-> "stop", wasRunning |-> isRunning]
  /\ UNCHANGED <<storeVars, procVars, sideVars, claimedInRun>>

\* stop()
Stop ==
  /\ IF isRunning
     THEN /\ shouldStop' = TRUE
          /\ isRunning' = FALSE
          /\ toldToStop' = toldToStop \cup AliveLoops(workers)
     ELSE UNCHANGED <<shouldStop, isRunning, toldToStop>>
  /\ workers' = workers
  /\ last' = [op |-> "stop", wasRunning |-> isRunning]
  /\ UNCHANGED <<storeVars, procVars, sideVars, claimedInRun>>

\* The claim failures tried in the pool: none, or BEGIN IMMEDIATE fails.
PoolClaimFailPoints == {"none", "begin"}

\* The replies tried in the pool: one topic, or no parsed content.
PoolReplies == {UnparsedResponse, [parsed |-> "object", topics |-> <<EntryPlain>>]}

\* The Store failures tried in the pool: none, or the UPDATE to error fails.
PoolFaults == {f \in StoreFaults : f.replaceFailAt = 0 /\ ~f.doneFails}

PoolNext ==
  \/ \E prio \in TieBreaks, failAts \in [1..2 -> PoolClaimFailPoints] : Start(prio, failAts)
  \/ Stop
  \/ \E item \in FetchedItems : Ingest(item)
  \/ \E w \in Loops : SleepEnd(w)
  \/ \E w \in Loops, failAt \in PoolClaimFailPoints : Poll(w, failAt)
  \/ \E w \in Loops, errorFails \in BOOLEAN : LlmThrows(w, errorFails)
  \/ \E w \in Loops, reply \in PoolReplies, fault \in PoolFaults :
       LlmReturns(w, reply, fault)

PoolSpec == PoolInit /\ [][PoolNext]_vars

\* A loop that can take a step takes one: a delay ends, the continuation of
\* an await runs, and (as the claims on draining assume) every model call
\* returns or throws.
LoopStep(w) ==
  \/ SleepEnd(w)
  \/ \E failAt \in PoolClaimFailPoints : Poll(w, failAt)
  \/ \E errorFails \in BOOLEAN : LlmThrows(w, errorFails)
  \/ \E reply \in PoolReplies, fault \in PoolFaults : LlmReturns(w, reply, fault)

FairPoolSpec == PoolSpec /\ \A w \in Loops : WF_vars(LoopStep(w))

(***************************************************************************)
(* ProgressSpec: the pool of PoolSpec when every status write succeeds     *)
(* (the claim's UPDATE, and setStageStatus to done and to error) and every *)
(* model call returns or throws.  replaceTopics may still fail, at any of  *)
(* its statements.                                                         *)
(***************************************************************************)
\* The Store failures left: a statement of replaceTopics fails.
ProgressFaults == {f \in StoreFaults : ~f.doneFails /\ ~f.errorFails}

\* No claim of start() fails.
NoClaimFails == [k \in 1..2 |-> "none"]

\* The loops of ProgressSpec: one slot fewer than in PoolSpec, which leaves room
\* for two start() calls of a one-loop pool and one of a two-loop pool.
ProgressLoops == 1..(MaxLoops - 1)

\* start(), its claims succeeding.
ProgressStart(prio) ==
  /\ Start(prio, NoClaimFails)
  /\ SpawnedLoops(workers') \subseteq ProgressLoops

ProgressLoopStep(w) ==
  \/ SleepEnd(w)
  \/ Poll(w, "none")
  \/ LlmThrows(w, FALSE)
  \/ \E reply \in PoolReplies, fault \in ProgressFaults : LlmReturns(w, reply, fault)

ProgressNext ==
  \/ \E prio \in TieBreaks : ProgressStart(prio)
  \/ Stop
  \/ \E item \in FetchedItems : Ingest(item)
  \/ \E w \in ProgressLoops : ProgressLoopStep(w)

ProgressSpec ==
  PoolInit /\ [][ProgressNext]_vars /\ \A w \in ProgressLoops : WF_vars(ProgressLoopStep(w))

(***************************************************************************)
(* IngestSpec: one DataIngestionService whose start() and stop() are       *)
(* called at any time; a fetch ends with success or with an error, and a  *)
(* timeout that was not cleared fires.                                     *)
(***************************************************************************)
IngestInit ==
  /\ raw_content = {}
  /\ topics = {}
  /\ phase = "running"
  /\ resets = 1
  /\ configWorkers = 0
  /\ isRunning = FALSE
  /\ shouldStop = FALSE
  /\ workers = [w \in WorkerIds |-> NoWorker]
  /\ toldToStop = {}
  /\ claimedInRun = {}
  /\ txOpen = FALSE
  /\ channel_metadata = {}
  /\ ingest \in {[NotStarted EXCEPT !.sources = cfg] : cfg \in AdapterConfigs}
  /\ last = NoCall

StartedChains(ing) == {c \in Chains : ing.chains[c].pc # "none"}

\* DataIngestionService.start(): startSourceTimer calls fetchAndScheduleNext
IngestStart ==
  LET c == Cardinality(StartedChains(ingest)) + 1 IN
  /\ c <= MaxStarts
  /\ LET after == BeginCycle(ingest.chains[c], ingest.sources) IN
     ingest' = [ingest EXCEPT !.chains[c] = after,
                              !.timer = TimerAfter(@, c, ingest.chains[c], after),
                              !.stopped = FALSE]
  /\ last' = [op |-> "ingestion.start", chain |-> c]
  /\ UNCHANGED <<storeVars, procVars, poolVars, channel_metadata>>

\* DataIngestionService.stop(): clearTimeout(this.timer), which has an effect
\* only while that timeout has not fired.
IngestStop ==
  /\ ingest' = IF ingest.timer = 0 THEN [ingest EXCEPT !.stopped = TRUE]
               ELSE [ingest EXCEPT !.timer = 0,
                                   !.chains[ingest.timer].pending = IF @ > 0 THEN @ - 1 ELSE 0,
                                   !.stopped = TRUE]
  /\ last' = [op |-> "ingestion.stop", timer |-> ingest.timer]
  /\ UNCHANGED <<storeVars, procVars, poolVars, channel_metadata>>

\* source.fetch() of chain c settles.
FetchEnds(c, ok) ==
  /\ ingest.chains[c].pc = "fetching"
  /\ LET after == FetchEnd(ingest.chains[c], ingest.sources, ok) IN
     ingest' = [ingest EXCEPT !.chains[c] = after,
                              !.timer = TimerAfter(@, c, ingest.chains[c], after)]
  /\ last' = [op |-> "fetch", chain |-> c, ok |-> ok]
  /\ UNCHANGED <<storeVars, procVars, poolVars, channel_metadata>>

\* A timeout of chain c fires: fetchAndScheduleNext runs again.
TimerFires(c) ==
  /\ ingest.chains[c].pending > 0
  /\ LET fired == [ingest.chains[c] EXCEPT !.pending = @ - 1]
         after == BeginCycle(fired, ingest.sources) IN
     ingest' = [ingest EXCEPT !.chains[c] = after,
                              !.timer = TimerAfter(@, c, fired, after)]
  /\ last' = [op |-> "timeout", chain |-> c]
  /\ UNCHANGED <<storeVars, procVars, poolVars, channel_metadata>>

IngestNext ==
  \/ IngestStart
  \/ IngestStop
  \/ \E c \in Chains, ok \in BOOLEAN : FetchEnds(c, ok)
  \/ \E c \in Chains : TimerFires(c)

IngestSpec == IngestInit /\ [][IngestNext]_vars

(***************************************************************************)
(* QuerySpec: items are upserted and topics replaced in any order, and the *)
(* Store is read: by Fetcher.fetch for its since date, and by the          *)
(* date-range query at any reading of the clock.                           *)
(***************************************************************************)
\* The fetchers asked for their since date: any source and account.
Fetchers == [source : {"youtube", "telegram"}, account : {"@a", "@b"}]

\* Readings of Date.now() when the query runs.
Nows == 11..14

\* Fetcher.fetch: `lastFetchDate || this.startDate`, passed to fetchImpl.
FetchSince(rc, fetcher) ==
  LET lastFetchDate == GetLastFetchDate(rc, fetcher.source, fetcher.account) IN
  IF lastFetchDate # <<>> THEN lastFetchDate[1] ELSE StartDate

\* Fetcher.fetch() up to its call of fetchImpl(since)
CallFetch(fetcher) ==
  /\ last' = [op |-> "fetch", fetcher |-> fetcher, since |-> FetchSince(raw_content, fetcher),
              initial |-> GetLastFetchDate(raw_content, fetcher.source, fetcher.account) = <<>>]
  /\ UNCHANGED <<storeVars, procVars, sideVars, poolVars>>

\* getTopicsByDateRange(days), days being what the get-topics tool accepts
\* (an integer, at least 1)
CallGetTopicsByDateRange(days, now) ==
  /\ last' = [op |-> "getTopicsByDateRange", days |-> days, now |-> now,
              rows |-> GetTopicsByDateRange(raw_content, topics, channel_metadata, days, now)]
  /\ UNCHANGED <<storeVars, procVars, sideVars, poolVars>>

QueryNext ==
  \/ \E item \in ItemInputs : CallInsert(item)
  \/ \E id \in Ids : CallReplace(id, <<TopicA>>, 0)
  \/ \E fetcher \in Fetchers : CallFetch(fetcher)
  \/ \E days \in 1..MaxDays, now \in Nows : CallGetTopicsByDateRange(days, now)

QuerySpec == StoreInit /\ [][QueryNext]_vars

(***************************************************************************)
(* MetadataSpec: channel metadata is stored and looked up in any order.    *)
(***************************************************************************)
\* storeChannelMetadata(metadata)
CallStoreChannelMetadata(metadata) ==
  /\ channel_metadata' = StoreChannelMetadata(channel_metadata, metadata)
  /\ last' = [op |-> "storeChannelMetadata", metadata |-> metadata]
  /\ UNCHANGED <<storeVars, procVars, ingest, poolVars>>

\* getCachedChannelId(source, accountName)
CallGetCachedChannelId(source, accountName) ==
  /\ last' = [op |-> "getCachedChannelId", source |-> source, accountName |-> accountName,
              ret |-> GetCachedChannelId(channel_metadata, source, accountName)]
  /\ UNCHANGED <<storeVars, procVars, sideVars, poolVars>>

MetadataNext ==
  \/ \E metadata \in MetadataInputs : CallStoreChannelMetadata(metadata)
  \/ \E source \in {"youtube", "telegram"}, accountName \in {"@a", "@b"} :
       CallGetCachedChannelId(source, accountName)

MetadataSpec == StoreInit /\ [][MetadataNext]_vars

(***************************************************************************)
(* Properties of the Store.                                                *)
(***************************************************************************)
Min(a, b) == IF a <= b THEN a ELSE b

PendingRows(rc) == {r \in rc : r.topics_status = "pending"}

\* The step is a claim call that returned (an item or none).
ClaimReturned ==
  /\ last'.op = "claim"
  /\ Len(last'.rets) = (IF last.op = "claim" THEN Len(last.rets) ELSE 0) + 1

\* What that call returned.
ReturnedTask == last'.rets[Len(last'.rets)]

ItemsReturned(rets) == {k \in 1..Len(rets) : rets[k] # NoTask}

\* The workers that hold item id: claimed by them and not yet released.
Holders(id) == {w \in WorkerIds : workers[w].task # NoTask /\ workers[w].task.id = id}

\* C1: in every reachable state of the program no item is held by two workers,
\* and an item in status processing is held by at most one worker.
C1_MutualExclusion ==
  /\ \A w1, w2 \in WorkerIds :
       (w1 # w2 /\ workers[w1].task # NoTask /\ workers[w2].task # NoTask)
         => workers[w1].task.id # workers[w2].task.id
  /\ \A r \in raw_content :
       r.topics_status = "processing" => Cardinality(Holders(r.id)) <= 1

\* Two workers each hold an item while the model call of each is in flight.
C1_Witness ==
  /\ \A w \in WorkerIds : workers[w].pc = "processing"
  /\ \A r \in raw_content : r.topics_status = "processing" /\ Cardinality(Holders(r.id)) = 1
  /\ Cardinality(raw_content) = 2

\* C2: of N claim calls made back to back on a store holding k pending items,
\* exactly min(N, k) return an item, the items returned are pairwise distinct,
\* and the other calls return none.
C2_ConcurrentClaims ==
  last.op = "claim" =>
    /\ Cardinality(ItemsReturned(last.rets)) = Min(Len(last.rets), last.pending)
    /\ \A i, j \in ItemsReturned(last.rets) : i # j => last.rets[i].id # last.rets[j].id

\* Three calls on a store holding one pending item have returned.
C2_Witness ==
  /\ last.op = "claim"
  /\ last.pending = 1
  /\ Len(last.rets) = 3
  /\ Cardinality(ItemsReturned(last.rets)) = 1

\* C3: a claim call returns none exactly when no row is pending, and otherwise
\* returns a pending row whose publish instant no pending row precedes.
C3_ClaimEarliestPending ==
  [][ClaimReturned =>
      LET ret == ReturnedTask
          pending == PendingRows(raw_content) IN
      /\ (ret = NoTask) <=> (pending = {})
      /\ ret # NoTask =>
           /\ \E r \in pending : r.id = ret.id /\ ParseDate(r.publish_date) = ret.publishDate
           /\ \A o \in pending : ret.publishDate <= ParseDate(o.publish_date)]_vars

\* The first of a run of claims, on three pending rows of three distinct publish
\* instants, returned an item.
C3_Witness ==
  /\ last.op = "claim"
  /\ last.pending = 3
  /\ Len(last.rets) = 1
  /\ last.rets[1] # NoTask
  /\ Cardinality({r.publish_date : r \in raw_content}) = 3

\* C4: a claim that returns an item changes that row's status from pending to
\* processing and nothing else; a claim that returns none changes nothing.
C4_ClaimFrame ==
  [][ClaimReturned =>
      LET ret == ReturnedTask IN
      /\ topics' = topics
      /\ IF ret = NoTask
         THEN raw_content' = raw_content
         ELSE \E r \in raw_content :
                /\ r.id = ret.id
                /\ r.topics_status = "pending"
                /\ raw_content' =
                     (raw_content \ {r}) \cup {[r EXCEPT !.topics_status = "processing"]}]_vars

\* A claim returned an item while another row was pending, one was done and a
\* topic was stored.
C4_Witness ==
  /\ last.op = "claim"
  /\ Len(last.rets) = 1
  /\ last.rets[1] # NoTask
  /\ topics # {}
  /\ \E r \in raw_content : r.topics_status = "pending"
  /\ \E r \in raw_content : r.topics_status = "done"

\* C5: the reset run by initialize() leaves every row that was processing or
\* error pending, every row that was pending or done with its status, adds and
\* removes no row, and changes no topic row.
C5_StartupRecovery ==
  [][last'.op = "initialize" =>
      /\ {r.id : r \in raw_content'} = {r.id : r \in raw_content}
      /\ Cardinality(raw_content') = Cardinality(raw_content)
      /\ \A r \in raw_content :
           RowOf(raw_content', r.id).topics_status =
             (IF r.topics_status \in {"processing", "error"} THEN "pending" ELSE r.topics_status)
      /\ topics' = topics]_vars

\* initialize() ran on a store that held a processing, an error and a done row
\* and a topic.
C5_Witness ==
  /\ last.op = "initialize"
  /\ last.from = {"processing", "error", "done"}
  /\ last.changes = 2
  /\ topics # {}

\* C6: in a process run the reset is executed once, before any worker exists
\* (and so before any first claim), and never in a step at which a worker
\* holds an item.
C6_ResetOnceBeforeWorkers ==
  /\ [](resets <= 1)
  /\ []((phase = "running" \/ \E w \in WorkerIds : workers[w].pc # "none") => resets = 1)
  /\ [][resets' > resets =>
          \A w \in WorkerIds :
            /\ workers[w].pc = "none" /\ workers[w].task = NoTask
            /\ workers'[w].pc = "none" /\ workers'[w].task = NoTask]_vars

\* The reset ran, the pool runs, a worker holds an item and another item is
\* done.
C6_Witness ==
  /\ resets = 1
  /\ \E w \in WorkerIds : workers[w].pc = "processing"
  /\ \E r \in raw_content : r.topics_status = "done"

\* C7: insertRawContent on a stored id overwrites source, account, title,
\* content and publish date and keeps the status; on a new id it stores the
\* item as pending; no other row and no topic changes; and the same call made
\* again changes nothing.
C7_UpsertKeepsStatus ==
  [][last'.op = "insert" =>
      LET item == last'.item IN
      /\ Cardinality({r \in raw_content' : r.id = item.id}) = 1
      /\ LET new == RowOf(raw_content', item.id) IN
         /\ new.source = item.source
         /\ new.account = item.account
         /\ new.title = item.title
         /\ new.content = item.content
         /\ ParseDate(new.publish_date) = item.publishDate
         /\ new.topics_status = IF HasRow(raw_content, item.id)
                                THEN RowOf(raw_content, item.id).topics_status
                                ELSE "pending"
      /\ {r \in raw_content' : r.id # item.id} = {r \in raw_content : r.id # item.id}
      /\ topics' = topics
      /\ InsertRawContent(raw_content', item) = raw_content']_vars

\* An item that was stored and done has been upserted.
C7_Witness ==
  /\ last.op = "insert"
  /\ last.existed
  /\ RowOf(raw_content, last.item.id).topics_status = "done"

\* C8: replaceTopics leaves the item's topics either as they were or as the
\* complete new list, and a call that throws leaves the whole table as it was.
C8_ReplaceAtomic ==
  [][last'.op = "replace" =>
      /\ StoredTopics(topics', last'.id) \in {StoredTopics(topics, last'.id), last'.list}
      /\ last'.error # "none" => topics' = topics]_vars

\* A call with two topics on a stored item that had topics threw at its second
\* INSERT, after the DELETE and the first INSERT.
C8_Witness ==
  /\ last.op = "replace"
  /\ last.error # "none"
  /\ last.failedAt = 3
  /\ HasRow(raw_content, last.id)
  /\ StoredTopics(topics, last.id) # <<>>

\* C9: after a replaceTopics that returns, the item's topics are exactly the
\* list given, whatever was stored by the call before, and the rows of every
\* other item are as they were.
C9_FullReplace ==
  [][(last'.op = "replace" /\ last'.error = "none") =>
      /\ StoredTopics(topics', last'.id) = last'.list
      /\ {t \in topics' : t.raw_content_id # last'.id}
           = {t \in topics : t.raw_content_id # last'.id}]_vars

\* replaceTopics(id, A) and then replaceTopics(id, B) returned, A and B non-empty
\* and different, while another item had topics.
C9_Witness ==
  /\ last.op = "replace"
  /\ last.error = "none"
  /\ last.list # <<>>
  /\ last.after # <<>>
  /\ last.after[1] # <<>>
  /\ last.after[1] # last.list
  /\ \E t \in topics : t.raw_content_id # last.id

(***************************************************************************)
(* Properties of the extraction stage.                                     *)
(***************************************************************************)
\* The entries of a reply with name and content trimmed, without the entries
\* whose trimmed name or content is empty.
TrimmedEntries(reply) ==
  IF reply.parsed # "object" THEN <<>>
  ELSE LET keep == SelectSeq(reply.topics,
                             LAMBDA e : Trim(e.name) # <<>> /\ Trim(e.content) # <<>>) IN
       [k \in 1..Len(keep) |->
          [name |-> Trim(keep[k].name), content |-> Trim(keep[k].content),
           keywords |-> keep[k].keyowrds, generatedByModel |-> ModelName]]

\* C10: when processContent returns, the item is done and its stored topics are
\* the trimmed, non-empty entries of the reply; and whenever processContent
\* leaves the item done, these topics are stored (they are written first).
C10_SuccessfulExtraction ==
  [][last'.op = "processContent" =>
      LET id == last'.task.id IN
      /\ last'.error = "none" =>
           /\ RowOf(raw_content', id).topics_status = "done"
           /\ StoredTopics(topics', id) = TrimmedEntries(last'.reply)
      /\ RowOf(raw_content', id).topics_status = "done" =>
           StoredTopics(topics', id) = TrimmedEntries(last'.reply)]_vars

\* processContent returned on a reply of three entries, one padded and one of
\* a blank name.
C10_Witness ==
  /\ last.op = "processContent"
  /\ last.error = "none"
  /\ Len(last.reply.topics) = 3
  /\ StoredTopics(topics, last.task.id) = <<TopicB, TopicA>>
  /\ RowOf(raw_content, last.task.id).topics_status = "done"

\* The status of item id in table rc.
StatusOf(rc, id) == RowOf(rc, id).topics_status

\* C11 (amended): when no entry of the reply survives trimming (or the reply has
\* no entries), processContent throws, the item is not done and no topic row
\* changes; and when the error hook returns, the item is in status error.
C11_EmptyAfterTrimFails ==
  [][(last'.op = "processContent" /\ last'.reply # NoReply
        /\ TrimmedEntries(last'.reply) = <<>>) =>
      /\ last'.error # "none"
      /\ StatusOf(raw_content', last'.task.id) # "done"
      /\ topics' = topics
      /\ last'.hook = "returned" => StatusOf(raw_content', last'.task.id) = "error"]_vars

\* The model replied one entry of blank name and content; the item is in error.
C11_Witness ==
  /\ last.op = "processContent"
  /\ last.reply.parsed = "object"
  /\ Len(last.reply.topics) = 1
  /\ TrimmedEntries(last.reply) = <<>>
  /\ last.hook = "returned"
  /\ StatusOf(raw_content, last.task.id) = "error"

\* C11 as stated: when no entry of the reply survives trimming, processing
\* fails and the item ends in status error, never done.
C11_AlwaysEndsInError ==
  [][(last'.op = "processContent" /\ last'.reply # NoReply
        /\ TrimmedEntries(last'.reply) = <<>>) =>
      /\ last'.error # "none"
      /\ StatusOf(raw_content', last'.task.id) = "error"]_vars

\* C12: an error hook that returns for a known task leaves that item in status
\* error and every other item as it was; an error hook called with no task
\* (the claim threw) changes no item and no topic row.
C12_HandleErrorFrame ==
  [][(last'.op \in {"processContent", "claimContent"} /\ last'.hook = "returned") =>
      IF last'.task # NoTask
      THEN /\ StatusOf(raw_content', last'.task.id) = "error"
           /\ {r \in raw_content' : r.id # last'.task.id}
                = {r \in raw_content : r.id # last'.task.id}
           /\ \A r \in raw_content : r.id = last'.task.id =>
                [r EXCEPT !.topics_status = "error"] \in raw_content'
      ELSE raw_content' = raw_content /\ topics' = topics]_vars

\* The hook returned for a worker's task while the other worker's item was in
\* processing.
C12_Witness ==
  /\ last.op = "processContent"
  /\ last.hook = "returned"
  /\ StatusOf(raw_content, last.task.id) = "error"
  /\ \E r \in raw_content : r.id # last.task.id /\ r.topics_status = "processing"

(***************************************************************************)
(* Properties of the worker pool.                                          *)
(***************************************************************************)
\* C13: start() on a pool that is not running spawns exactly max(1, configured
\* worker count) loops and leaves the earlier loops as they are; start() on a
\* running pool spawns none and changes no pool state and no table.
C13_StartSpawns ==
  [][last'.op = "start" =>
      LET new == SpawnedLoops(workers') \ SpawnedLoops(workers) IN
      IF last'.wasRunning
      THEN /\ new = {}
           /\ <<isRunning, shouldStop, workers>>' = <<isRunning, shouldStop, workers>>
           /\ storeVars' = storeVars
      ELSE /\ Cardinality(new) = (IF configWorkers > 1 THEN configWorkers ELSE 1)
           /\ isRunning'
           /\ \A w \in SpawnedLoops(workers) : workers'[w] = workers[w]]_vars

\* start() returned on a pool configured with 0 workers that was not running:
\* one loop exists.
C13_Witness ==
  /\ last.op = "start"
  /\ ~last.wasRunning
  /\ configWorkers = 0
  /\ Cardinality(SpawnedLoops(workers)) = 1

\* C14: stop() changes no loop and no table, and a processContent call of a
\* loop that was told to stop ends as any other: the topics replaced and the
\* item done, or (the error hook having returned) the item in error, the loop
\* going on to the top of its while loop or to the error delay.
C14_StopDoesNotInterrupt ==
  [][/\ last'.op = "stop" => workers' = workers /\ storeVars' = storeVars
     /\ (last'.op = "processContent" /\ last'.worker \in toldToStop) =>
          LET id == last'.task.id
              w == last'.worker IN
          /\ workers[w].pc = "processing" /\ workers[w].task = last'.task
          /\ last'.error = "none" =>
               /\ StatusOf(raw_content', id) = "done"
               /\ StoredTopics(topics', id) = TrimmedEntries(last'.reply)
               /\ workers'[w].pc = "polling"
          /\ (last'.error # "none" /\ last'.hook = "returned") =>
               /\ StatusOf(raw_content', id) = "error"
               /\ workers'[w].pc = "error_wait"]_vars

\* stop() was called while a loop held an item, and that loop's processContent
\* has since returned: the item is done and has its topic.
C14_Witness ==
  /\ shouldStop
  /\ last.op = "processContent"
  /\ last.worker \in toldToStop
  /\ last.error = "none"
  /\ StatusOf(raw_content, last.task.id) = "done"
  /\ StoredTopics(topics, last.task.id) = <<TopicA>>

\* The step is a claim issued by loop w.
IssuesClaim(w) == workers[w].pc = "polling" /\ workers'[w].pc \notin {"polling", "stopped"}

\* C15: a loop that was running when stop() was called issues no claim
\* afterwards, whether it was processing or in a wait at that time.
C15_NoClaimAfterStop ==
  [][\A w \in Loops : w \in toldToStop => ~IssuesClaim(w)]_vars

\* C16: a loop that was running when stop() was called eventually ends, and
\* takes up no task after the one it held at that time.
C16_DrainThenExit ==
  /\ \A w \in Loops : (w \in toldToStop) ~> (workers[w].pc \in {"stopped", "crashed"})
  /\ [][\A w \in Loops :
          (w \in toldToStop /\ workers'[w].pc = "processing")
            => (workers[w].pc = "processing" /\ workers'[w].task = workers[w].task)]_vars

\* The step is one of worker w's loop, in a process that goes on running.
WorkerSteps(w) == workers'[w] # workers[w] /\ phase = "running" /\ phase' = "running"

\* C17: when the error hook throws, the loop that called it ends and no other
\* loop and not the process is affected; an ended loop takes no further step
\* and is not started again.
C17_HookThrowEndsOneWorker ==
  [][/\ (last'.op \in {"processContent", "claimContent"} /\ last'.hook = "threw") =>
          /\ workers'[last'.worker] = Worker("crashed", NoTask)
          /\ \A v \in WorkerIds \ {last'.worker} : workers'[v] = workers[v]
          /\ phase' = "running"
          /\ <<isRunning, shouldStop>>' = <<isRunning, shouldStop>>
     /\ \A w \in WorkerIds : workers[w].pc = "crashed" => ~WorkerSteps(w)]_vars

\* One worker's hook threw and its loop ended; since then the other worker has
\* claimed the other item and processed it to done.
C17_Witness ==
  /\ phase = "running"
  /\ last.op = "processContent"
  /\ last.error = "none"
  /\ \E w \in WorkerIds \ {last.worker} :
       /\ workers[w].pc = "crashed"
       /\ \E r \in raw_content : r.id # last.task.id /\ r.topics_status = "processing"

\* The errors processContent throws that are not Store failures.
ProcessingErrors == {"llm.complete", "LLM returned no topics"}

\* C18: when the model call throws or no topic survives validation, and the
\* error hook returns, the item is in error, the worker is in the error delay,
\* no other loop and not the process is affected; and the next step of a
\* worker in the error delay is back to the top of its loop.
C18_ProcessingErrorContained ==
  [][/\ (last'.op = "processContent" /\ last'.error \in ProcessingErrors
           /\ last'.hook = "returned") =>
          /\ StatusOf(raw_content', last'.task.id) = "error"
          /\ workers'[last'.worker] = Worker("error_wait", NoTask)
          /\ \A v \in WorkerIds \ {last'.worker} : workers'[v] = workers[v]
          /\ phase' = "running"
     /\ \A w \in WorkerIds :
          (workers[w].pc = "error_wait" /\ WorkerSteps(w)) => workers'[w].pc = "polling"]_vars

\* A model call threw, the hook returned: the item is in error and the worker
\* waits.
C18_Witness ==
  /\ phase = "running"
  /\ last.op = "processContent"
  /\ last.error = "llm.complete"
  /\ last.hook = "returned"
  /\ workers[last.worker].pc = "error_wait"

\* The step is a claim or a replaceTopics call of a worker that threw.
StoreFailureInLoop ==
  \/ last'.op = "claimContent"
  \/ last'.op = "processContent" /\ last'.error = "replace"

\* C19 (amended): a failure thrown by the claim, or by replaceTopics when the
\* error hook then returns, puts the worker in the error delay, from which
\* its next step is back to the top of its loop; no other loop and not the
\* process is affected.
C19_StoreFailureContained ==
  [][/\ (StoreFailureInLoop /\ last'.hook = "returned") =>
          /\ workers'[last'.worker] = Worker("error_wait", NoTask)
          /\ \A v \in WorkerIds \ {last'.worker} : workers'[v] = workers[v]
          /\ phase' = "running"
     /\ \A w \in WorkerIds :
          (workers[w].pc = "error_wait" /\ WorkerSteps(w)) => workers'[w].pc = "polling"]_vars

\* A worker's claim threw at BEGIN while the other worker held an item.
C19_Witness ==
  /\ phase = "running"
  /\ last.op = "claimContent"
  /\ last.failedAt = "begin"
  /\ workers[last.worker].pc = "error_wait"
  /\ \E v \in WorkerIds : workers[v].pc = "processing"

\* C19 as stated: a failure thrown by the claim or by replaceTopics always
\* leads to the error delay and never ends the worker.
C19_StoreFailureNeverEndsWorker ==
  [][StoreFailureInLoop =>
       /\ workers'[last'.worker].pc = "error_wait"
       /\ phase' = "running"]_vars

(***************************************************************************)
(* Properties of the Store's failures.                                     *)
(***************************************************************************)
\* C20: when BEGIN, the SELECT, the UPDATE or COMMIT of a claim throws, the
\* caller is thrown that same error, and no row of either table has changed.
C20_ClaimFailureUnmodified ==
  [][(last'.op = "claim" /\ last'.failedAt # "none") =>
      /\ last'.error = last'.failedAt
      /\ raw_content' = raw_content
      /\ topics' = topics]_vars

\* A reply of one valid topic, and a Store that fails nothing.
PlainReply == [parsed |-> "object", topics |-> <<EntryPlain>>]

NoFault == [replaceFailAt |-> 0, doneFails |-> FALSE, errorFails |-> FALSE]

\* C21: while one worker is inside a processing call that has not returned,
\* every other worker can go on: at its loop test it can claim a pending item
\* and start processing it, and inside its own processing call it can finish
\* the item (topics stored, status done) or record its failure (status error),
\* each without any step of the stalled worker.
C21_StalledCallBlocksNoOne ==
  \A w \in WorkerIds : \A v \in WorkerIds \ {w} :
    (phase = "running" /\ workers[w].pc = "processing") =>
      /\ (workers[v].pc = "polling" /\ ~shouldStop /\ PendingRows(raw_content) # {}) =>
           ENABLED (/\ Poll(v, "none")
                    /\ workers'[v].pc = "processing"
                    /\ workers'[w] = workers[w])
      /\ workers[v].pc = "processing" =>
           ENABLED (/\ LlmThrows(v, FALSE)
                    /\ StatusOf(raw_content', workers[v].task.id) = "error"
                    /\ workers'[w] = workers[w])
      /\ (workers[v].pc = "processing" /\ \A t \in topics : t.id < MaxTopicId) =>
           ENABLED (/\ LlmReturns(v, PlainReply, NoFault)
                    /\ StatusOf(raw_content', workers[v].task.id) = "done"
                    /\ workers'[w] = workers[w])

\* One worker has just completed an item while the other is still inside its
\* processing call.
C21_Witness ==
  \E w \in WorkerIds : \E v \in WorkerIds \ {w} :
    /\ phase = "running"
    /\ workers[w].pc = "processing"
    /\ last.op = "processContent"
    /\ last.worker = v
    /\ last.error = "none"
    /\ StatusOf(raw_content, last.task.id) = "done"

\* A model call (llm.complete, awaited by processContent) is in progress.
ModelCallInProgress == \E w \in DOMAIN workers : workers[w].pc = "processing"

\* An adapter's network fetch may be in progress: the adapters fetch while the
\* program runs, and Ingest is a save in the middle of one fetch.
FetchMayBeInProgress == phase = "running"

\* C22: while a model call or an adapter's fetch is in progress, the Store's
\* connection is inside no transaction: the claim has committed or rolled back
\* before processing starts, and replaceTopics opens its transaction only once
\* the model call has returned and closes it before it returns.
C22_NoCallInsideTransaction ==
  (ModelCallInProgress \/ FetchMayBeInProgress) => ~txOpen

\* Two model calls are in flight, each after its own claim, and one item has
\* had its topics replaced before.
C22_Witness ==
  /\ phase = "running"
  /\ \A w \in WorkerIds : workers[w].pc = "processing"
  /\ \E r \in raw_content : r.topics_status = "processing" /\ TopicIdsOf(topics, r.id) # {}
  /\ ~txOpen

\* C23: in each ingestion cycle the adapters are fetched in the configured
\* order, each exactly once and one at a time, whether the fetches before
\* succeeded or failed: inside a cycle the fetches called so far are a prefix of
\* the configured list with only the last one in progress, and a cycle that has
\* ended has called every adapter's fetch and seen every one settle.
C23_EachAdapterOncePerCycle ==
  \A c \in Chains :
    LET ch == ingest.chains[c] IN
    /\ Cardinality(ch.inflight) <= 1
    /\ ch.pc = "fetching" =>
         /\ ch.idx \in 1..Len(ingest.sources)
         /\ ch.fetched = SubSeq(ingest.sources, 1, ch.idx)
         /\ ch.inflight = {ch.idx}
         /\ Len(ch.results) = ch.idx - 1
    /\ ch.pc = "waiting" =>
         /\ ch.fetched = ingest.sources
         /\ Len(ch.results) = Len(ingest.sources)
         /\ ch.inflight = {}

\* A cycle over two adapters has ended; the first fetch failed and the second
\* was made all the same.
C23_Witness ==
  \E c \in Chains :
    /\ ingest.chains[c].pc = "waiting"
    /\ ingest.chains[c].fetched = <<"@a", "@b">>
    /\ ingest.chains[c].results = <<"failed", "ok">>

\* The step ends a cycle of chain c.
CycleEnds(c) ==
  /\ last'.op \in {"ingestion.start", "timeout", "fetch"}
  /\ last'.chain = c
  /\ ingest'.chains[c].pc = "waiting"

\* C24: a cycle that ends, whatever its fetches did, leaves exactly one timeout
\* for the next cycle of its chain, and no timeout of a chain is outstanding
\* while a cycle of that chain runs: the next cycle of a started scheduler
\* begins only after the current one has ended.
C24_OneNextCycleAfterEnd ==
  [][\A c \in Chains :
       /\ CycleEnds(c) => ingest'.chains[c].pending = 1
       /\ ingest'.chains[c].pc = "fetching" => ingest'.chains[c].pending = 0
       /\ ingest'.chains[c].pending <= 1]_vars

\* A timeout set at the end of a cycle has fired and the next cycle is running,
\* with no further timeout outstanding.
C24_Witness ==
  /\ last.op = "timeout"
  /\ ingest.chains[last.chain].pc = "fetching"
  /\ ingest.chains[last.chain].pending = 0

\* The publish instants of the stored items of one (source, account) pair.
PairDates(rc, source, account) ==
  {ParseDate(r.publish_date) : r \in {x \in rc : x.source = source /\ x.account = account}}

\* C25: the since date a fetcher passes to fetchImpl is the greatest publish
\* date among the stored items of its own (source, account) pair, and it is the
\* start date the fetcher was built with exactly when the Store holds no item of
\* that pair; the items of other pairs play no part.
C25_SinceIsPairMaximum ==
  last.op = "fetch" =>
    LET mine == PairDates(raw_content, last.fetcher.source, last.fetcher.account) IN
    /\ last.initial <=> mine = {}
    /\ mine = {} => last.since = StartDate
    /\ mine # {} => last.since = MaxOf(mine)

\* A fetcher is given the date of its own pair's only items while an item of
\* another pair, under the same account name, has a later date.
C25_Witness ==
  /\ last.op = "fetch"
  /\ last.fetcher = [source |-> "telegram", account |-> "@b"]
  /\ last.since = 9
  /\ \E r \in raw_content : r.account = "@b" /\ r.source = "youtube" /\ ParseDate(r.publish_date) = 11

\* C26: the date-range query over N days returns a topic exactly when the
\* publish date of the item it belongs to is at or after the clock reading minus
\* N days, and returns nothing that is not a stored topic.
C26_TrailingWindow ==
  last.op = "getTopicsByDateRange" =>
    /\ \A t \in topics :
         (\E row \in last.rows : row.topicId = t.id)
           <=> ParseDate(RowOf(raw_content, t.raw_content_id).publish_date)
                 >= last.now - last.days * DayLength
    /\ \A row \in last.rows : \E t \in topics : t.id = row.topicId

\* A query returned the topic of an item published exactly N days before the
\* clock reading and left out the topic of an item published one unit earlier.
C26_Witness ==
  /\ last.op = "getTopicsByDateRange"
  /\ \E t \in topics :
       /\ ParseDate(RowOf(raw_content, t.raw_content_id).publish_date)
            = last.now - last.days * DayLength
       /\ \E row \in last.rows : row.topicId = t.id
  /\ \E t \in topics :
       /\ ParseDate(RowOf(raw_content, t.raw_content_id).publish_date)
            = last.now - last.days * DayLength - 1
       /\ \A row \in last.rows : row.topicId # t.id

\* C27: storing the metadata of one (source, account) pair leaves the entry of
\* every other pair in the table, also that of the same account name under
\* another source.
C27_StoreKeepsOtherPairs ==
  [][last'.op = "storeChannelMetadata" =>
       \A r \in channel_metadata :
         (r.source # last'.metadata.source \/ r.account_name # last'.metadata.accountName)
           => r \in channel_metadata']_vars

\* The step is an iteration of a worker's loop in which claimContent or
\* processContent threw.
IterationThrew ==
  \/ last'.op = "claimContent"
  \/ last'.op = "processContent" /\ last'.error # "none"

\* C28 (amended): an iteration in which claimContent or processContent throws
\* calls the error hook once: with the claimed task after processContent (when
\* the hook returns the task is in error), with none after claimContent (the
\* hook then changes nothing and returns).  When the hook returns the worker
\* enters the error delay, and when it throws the worker ends with no delay.  A
\* worker enters the error delay in no other way; when the claim returns none
\* no hook is called, nothing is written and the worker enters the idle delay;
\* and a worker in either delay does nothing but return to the top of its loop.
C28_ErrorHookOncePerFailure ==
  [][/\ (last'.op = "processContent" /\ last'.error # "none") =>
          /\ last'.task = workers[last'.worker].task
          /\ last'.task # NoTask
          /\ last'.hook \in {"returned", "threw"}
          /\ last'.hook = "returned" =>
               /\ workers'[last'.worker] = Worker("error_wait", NoTask)
               /\ StatusOf(raw_content', last'.task.id) = "error"
          /\ last'.hook = "threw" => workers'[last'.worker] = Worker("crashed", NoTask)
     /\ last'.op = "claimContent" =>
          /\ last'.task = NoTask
          /\ last'.hook = "returned"
          /\ workers[last'.worker].pc = "polling"
          /\ workers'[last'.worker] = Worker("error_wait", NoTask)
          /\ storeVars' = storeVars
     /\ \A w \in WorkerIds :
          /\ (WorkerSteps(w) /\ workers'[w].pc = "error_wait") =>
               IterationThrew /\ last'.worker = w /\ last'.hook = "returned"
          /\ (WorkerSteps(w) /\ workers'[w].pc = "idle_wait") =>
               workers[w].pc = "polling" /\ last' = NoCall /\ storeVars' = storeVars
          /\ (WorkerSteps(w) /\ workers[w].pc \in {"idle_wait", "error_wait"}) =>
               workers'[w].pc = "polling" /\ storeVars' = storeVars]_vars

\* A claim threw: the hook was called with no task and the worker is in the
\* error delay, while the other worker, whose claim returned none, is in the
\* idle delay.
C28_Witness ==
  /\ phase = "running"
  /\ last.op = "claimContent"
  /\ last.hook = "returned"
  /\ workers[last.worker].pc = "error_wait"
  /\ \E v \in WorkerIds \ {last.worker} : workers[v].pc = "idle_wait"

\* C28 as stated: whenever claimContent or processContent throws, the worker
\* waits the error delay next.
C28_ThrowThenErrorDelay ==
  [][IterationThrew => workers'[last'.worker] = Worker("error_wait", NoTask)]_vars

\* C29: a loop becomes stopped only in a step it takes at the test of its while
\* loop with the stop flag set: not from inside claimContent or processContent,
\* not from a delay, and not in a step of stop() or of another loop.
C29_StopsOnlyAtLoopTest ==
  [][\A w \in Loops :
       (workers'[w].pc = "stopped" /\ workers[w].pc # "stopped") =>
         /\ workers[w].pc = "polling"
         /\ shouldStop
         /\ last'.op \notin {"start", "stop"}
         /\ \A v \in Loops \ {w} : workers'[v] = workers[v]
         /\ storeVars' = storeVars]_vars

\* A loop has stopped after stop() while another loop, told to stop as well, is
\* still inside its processing call.
C29_Witness ==
  \E w \in toldToStop : \E v \in toldToStop \ {w} :
    /\ workers[w].pc = "stopped"
    /\ workers[v].pc = "processing"

\* The step is a claim by which some loop starts processing item id.
ClaimedInStep(id) ==
  \E w \in DOMAIN workers :
    /\ workers'[w].pc = "processing"
    /\ workers'[w].task.id = id
    /\ workers[w].pc # "processing"

\* C30: every item's status is pending, processing, done or error, and a step
\* changes the status of a stored item only from pending to processing (the
\* claim that hands the item to a loop), from processing to done (its
\* processContent returned), from processing to error (its processContent threw
\* and the error hook returned), or from processing or error to pending (the
\* reset of initialize()); upserts of a stored id change no status and no item
\* is removed.
C30_StatusTransitions ==
  [][/\ \A r \in raw_content' : r.topics_status \in Statuses
     /\ \A r \in raw_content :
          /\ HasRow(raw_content', r.id)
          /\ LET from == r.topics_status
                 to == StatusOf(raw_content', r.id)
             IN from # to =>
                  \/ from = "pending" /\ to = "processing" /\ ClaimedInStep(r.id)
                  \/ /\ from = "processing" /\ to = "done"
                     /\ last'.op = "processContent" /\ last'.task.id = r.id
                     /\ last'.error = "none"
                  \/ /\ from = "processing" /\ to = "error"
                     /\ last'.op = "processContent" /\ last'.task.id = r.id
                     /\ last'.error # "none" /\ last'.hook = "returned"
                  \/ /\ from \in {"processing", "error"} /\ to = "pending"
                     /\ resets' = resets + 1]_vars

\* An item that is done was saved again by an adapter, with other fields, in a
\* run that started with a reset, and is still done.
C30_Witness ==
  /\ last.op = "saveContent"
  /\ StatusOf(raw_content, last.item.id) = "done"
  /\ RowOf(raw_content, last.item.id).source = "telegram"
  /\ \E r \in raw_content : r.topics_status = "error"

(***************************************************************************)
(* Properties of an item's life.                                           *)
(***************************************************************************)
\* C31: within one run of the process (from one initialize() to the end of the
\* process) no item is handed to a loop twice: an item that was claimed, and so
\* one that reached error, is not claimed again in that run, also when an
\* adapter saves it again.
C31_ClaimedOncePerRun ==
  [][\A id \in Ids : ClaimedInStep(id) => id \notin claimedInRun]_vars

\* An item claimed in this run is in error and was then saved again by an
\* adapter; it is still in error while a loop is polling.
C31_Witness ==
  /\ phase = "running"
  /\ last.op = "saveContent"
  /\ last.item.id \in claimedInRun
  /\ StatusOf(raw_content, last.item.id) = "error"
  /\ \E w \in WorkerIds : workers[w].pc = "polling"

\* C32: a topic id that has been assigned is never assigned to a different
\* topic row: here, for one step, no row that the step adds carries the id of
\* a row that was in the table before the step.
C32_TopicIdsNeverReused ==
  [][\A t \in topics' \ topics : t.id \notin {u.id : u \in topics}]_vars

\* C33: an item that is done stays stored and done in every later state,
\* whatever step is taken: an upsert of its id, a claim, the outcome of another
\* item's processing, the end of the process and its restart with the reset.
C33_DoneIsAbsorbing ==
  [][\A r \in raw_content :
       r.topics_status = "done" =>
         HasRow(raw_content', r.id) /\ StatusOf(raw_content', r.id) = "done"]_vars

\* An item done in an earlier run is still done after the restart, when the
\* processing of another item has just failed.
C33_Witness ==
  /\ phase = "running"
  /\ last.op = "processContent"
  /\ last.error # "none"
  /\ \E r \in raw_content :
       /\ r.topics_status = "done"
       /\ r.id \notin claimedInRun
       /\ r.id # last.task.id

\* C34: in every reachable state every item whose status is done has at least
\* one stored topic, and each of its stored topics has a non-empty trimmed name
\* and a non-empty trimmed content.
C34_DoneHasTopics ==
  \A r \in raw_content :
    r.topics_status = "done" =>
      /\ \E t \in topics : t.raw_content_id = r.id
      /\ \A t \in topics :
           t.raw_content_id = r.id => Trim(t.name) # <<>> /\ Trim(t.content) # <<>>

\* A padded entry was stored trimmed next to a dropped blank one and the item
\* is done.
C34_Witness ==
  /\ last.op = "processContent" /\ last.error = "none"
  /\ \E e \in DOMAIN last.reply.topics : Trim(last.reply.topics[e].name) = <<>>
  /\ \E e \in DOMAIN last.reply.topics : last.reply.topics[e].name # Trim(last.reply.topics[e].name)
                                            /\ Trim(last.reply.topics[e].name) # <<>>
  /\ StatusOf(raw_content, last.task.id) = "done"

\* C35: over any sequence of start() and stop() calls on one pool, the loops
\* that are alive and able to claim (the stop flag being false) never number
\* more than max(1, configured worker count).
C35_AliveLoopsBounded ==
  ~shouldStop => Cardinality(AliveLoops(workers)) <= WorkerCount(configWorkers)

\* C36: while the pool is running, and given that every model call returns or
\* throws and every status write succeeds, every pending item eventually
\* reaches done or error (or the pool is stopped first).
C36_PendingProgresses ==
  \A id \in Ids :
    (isRunning /\ HasRow(raw_content, id) /\ StatusOf(raw_content, id) = "pending")
      ~> (~isRunning \/ (HasRow(raw_content, id) /\ StatusOf(raw_content, id) \in {"done", "error"}))

\* The pool is running, one item has reached done and another error, and no
\* item is pending or in progress.
C36_Witness ==
  /\ isRunning
  /\ \E r \in raw_content : r.topics_status = "done"
  /\ \E r \in raw_content : r.topics_status = "error"
  /\ \A r \in raw_content : r.topics_status \in {"done", "error"}
  /\ \A w \in AliveLoops(workers) : workers[w].pc = "idle_wait"

(***************************************************************************)
(* Properties of stopping.                                                 *)
(***************************************************************************)
\* C37: once DataIngestionService.stop() has been called (and start() not
\* called again), no timeout remains scheduled and no further cycle starts,
\* whether stop() came between two cycles or during one.
C37_StopEndsIngestion ==
  [][ingest'.stopped =>
       /\ \A c \in Chains : ingest'.chains[c].pending = 0
       /\ \A c \in Chains : ~(ingest.chains[c].pc # "fetching" /\ ingest'.chains[c].pc = "fetching")]_vars

\* The step wrote to item id as replaceTopics or setStageStatus(done / error) do:
\* its stored topics changed, or its status became done or error.
WrittenInStep(id) ==
  \/ {t \in topics' : t.raw_content_id = id} # {t \in topics : t.raw_content_id = id}
  \/ /\ HasRow(raw_content', id)
     /\ StatusOf(raw_content', id) \in {"done", "error"}
     /\ ~HasRow(raw_content, id) \/ StatusOf(raw_content, id) # StatusOf(raw_content', id)

\* C38: the topics of an item are replaced, and its status set to done or to
\* error, only by the worker that claimed the item (the one loop holding it as
\* its task, taken by a claim of this run) and only while the item's status is
\* processing.
C38_OnlyTheClaimantWrites ==
  [][\A id \in Ids :
       WrittenInStep(id) =>
         /\ last'.op = "processContent"
         /\ last'.task.id = id
         /\ workers[last'.worker].pc = "processing"
         /\ {w \in DOMAIN workers : workers[w].task # NoTask /\ workers[w].task.id = id}
              = {last'.worker}
         /\ id \in claimedInRun
         /\ StatusOf(raw_content, id) = "processing"]_vars

\* One worker has replaced the topics of its item and set it to done while the
\* other worker holds another item, still in processing.
C38_Witness ==
  /\ last.op = "processContent" /\ last.error = "none"
  /\ StatusOf(raw_content, last.task.id) = "done"
  /\ StoredTopics(topics, last.task.id) # <<>>
  /\ \E w \in DOMAIN workers :
       /\ w # last.worker
       /\ workers[w].pc = "processing"
       /\ workers[w].task.id # last.task.id
       /\ StatusOf(raw_content, workers[w].task.id) = "processing"

\* The step is a processing attempt that failed before persisting: the model
\* call threw (a failed schema validation included), or no topic was generated
\* (no parsed content, no entries, or none surviving the trimming).
FailedBeforePersisting == last'.op = "processContent" /\ last'.error \in ProcessingErrors

\* C39 (amended): a processing attempt that fails before persisting changes no
\* topic row and no item other than its own; when the error hook returns, its
\* own item differs only in its status, now error, and when the hook's status
\* write throws, its item is unchanged too (still in processing).
C39_FailureLeavesTopics ==
  [][FailedBeforePersisting =>
       /\ topics' = topics
       /\ raw_content' =
            IF last'.hook = "returned"
            THEN {IF r.id = last'.task.id THEN [r EXCEPT !.topics_status = "error"] ELSE r :
                    r \in raw_content}
            ELSE raw_content
       /\ StatusOf(raw_content, last'.task.id) = "processing"]_vars

\* An item that had stored topics from an earlier attempt failed before
\* persisting: its topics are still there, it is in error, and another item is
\* stored beside it.
C39_Witness ==
  /\ last.op = "processContent" /\ last.error \in ProcessingErrors
  /\ last.hook = "returned"
  /\ StoredTopics(topics, last.task.id) # <<>>
  /\ StatusOf(raw_content, last.task.id) = "error"
  /\ \E r \in raw_content : r.id # last.task.id

\* C39 as stated: a processing attempt that fails before persisting leaves the
\* topics unchanged and changes only that item's status, to error.
C39_FailureAlwaysSetsError ==
  [][FailedBeforePersisting =>
       /\ topics' = topics
       /\ raw_content' =
            {IF r.id = last'.task.id THEN [r EXCEPT !.topics_status = "error"] ELSE r :
               r \in raw_content}]_vars

====
